---- MODULE Spec2Model ----
(***************************************************************************)
(* The effects-and-completion join engine (class JoinImplementation and    *)
(* its helper functions) of src/src/utils/ShapeInformation.js.             *)
(*                                                                         *)
(* Objects with identity (completions, Effects records, generators) live   *)
(* in three heaps, comps, effs and gens, indexed by their allocation       *)
(* number; a reference is that number and 0 is "no object".  Values,       *)
(* binding entries and descriptors are tagged tuples, so that "undefined"  *)
(* (Void) can stand wherever the code allows it.                           *)
(***************************************************************************)
EXTENDS Integers, Sequences, FiniteSets, TLC

VARIABLES
    comps,            \* the completion objects
    effs,             \* the Effects records
    gens,             \* the generators
    bindingObjs,      \* each Binding's own <<hasLeaked, value>>
    propBindingObjs,  \* each PropertyBinding's own <<object, descriptor>>
    stack,            \* the Effects records the evaluator holds, oldest first
    call              \* the last call: its arguments, outcome and the heap before it

vars == <<comps, effs, gens, bindingObjs, propBindingObjs, stack, call>>

(***************************************************************************)
(* Values                                                                  *)
(***************************************************************************)
\* JavaScript undefined: an absent value, map entry or descriptor.
Void == <<"void">>
\* realm.intrinsics.undefined
Undefined == <<"undefined">>
\* realm.intrinsics.empty
Empty == <<"empty">>
Null == <<"null">>
\* The BooleanValue for "true" or "false".
Bool(b) == <<"bool", b>>
\* The NumberValue object number i that holds the number n.
Num(n, i) == <<"num", n, i>>
\* The NumberValue object number i that holds NaN.
NaN(i) == <<"nan", i>>
\* The StringValue object number i that holds s.
Str(s, i) == <<"str", s, i>>
\* The ObjectValue number o.
Obj(o) == <<"obj", o>>
\* An abstract value that is not a conditional, and its truth status
\* ("true": cannot be false, "false": cannot be true, "unknown").
Abs(name, status) == <<"abs", name, status>>

IsAbstract(v) == v[1] \in {"abs", "cond"}

IsEmptyValue(v) == v[1] = "empty"

IsArray(v) == v[1] = "arr"

Arr(elems) == <<"arr", elems>>

KV(k, v) == <<"kv", k, v>>

\* Value.mightNotBeTrue(): can the value be falsy?
mightNotBeTrue(v) ==
    CASE v[1] = "abs" -> v[3] # "true"
      [] v[1] = "cond" -> TRUE
      [] v[1] = "bool" -> v[2] = "false"
      [] v[1] = "num" -> v[2] = 0
      [] v[1] = "str" -> v[2] = ""
      [] v[1] = "obj" -> FALSE
      [] OTHER -> TRUE

\* Value.mightNotBeFalse(): can the value be truthy?
mightNotBeFalse(v) ==
    CASE v[1] = "abs" -> v[3] # "false"
      [] v[1] = "cond" -> TRUE
      [] v[1] = "bool" -> v[2] = "true"
      [] v[1] = "num" -> v[2] # 0
      [] v[1] = "str" -> v[2] # ""
      [] v[1] = "obj" -> TRUE
      [] OTHER -> FALSE

\* AbstractValue.createFromConditionalOp(realm, condition, left, right)
createFromConditionalOp(cond, v1, v2) == <<"cond", cond, v1, v2>>

\* StrictEqualityComparison(realm, x, y) on concrete values: the types must
\* agree; NaN equals nothing; booleans, numbers and strings compare by
\* content, objects by identity.
StrictEqualityComparison(x, y) ==
    CASE x[1] = "nan" \/ y[1] = "nan" -> FALSE
      [] x[1] # y[1] -> FALSE
      [] x[1] \in {"bool", "num", "str", "obj"} -> x[2] = y[2]
      [] OTHER -> TRUE

(***************************************************************************)
(* The getAbstractValue closures.  A closure is the pair of its kind and   *)
(* the join condition it captured.                                         *)
(***************************************************************************)
\* (v1, v2) => createFromConditionalOp(realm, joinCondition, v1, v2)
PlainGav(cond) == <<"plain", cond>>

\* The closure of joinNormalCompletions and collapseResults, which lets an
\* empty side give way to the other side.
EmptyAwareGav(cond) == <<"emptyAware", cond>>

OrUndefined(v) == IF v = Void THEN Undefined ELSE v

getAbstractValue(gav, v1, v2) ==
    IF gav[1] = "emptyAware" /\ IsEmptyValue(v1) THEN OrUndefined(v2)
    ELSE IF gav[1] = "emptyAware" /\ IsEmptyValue(v2) THEN OrUndefined(v1)
    ELSE createFromConditionalOp(gav[2], v1, v2)

(***************************************************************************)
(* joinValues and the array joins                                          *)
(***************************************************************************)
Max(a, b) == IF a > b THEN a ELSE b

ArrLen(a) == IF a = Void THEN 0 ELSE Len(a[2])

\* (a && a[i]) || dflt
ArrAt(a, i, dflt) == IF a # Void /\ i <= Len(a[2]) THEN a[2][i] ELSE dflt

joinArraysOfValues(a1, a2, gav) ==
    Arr([i \in 1..Max(ArrLen(a1), ArrLen(a2)) |->
            getAbstractValue(gav, ArrAt(a1, i, Void), ArrAt(a2, i, Void))])

joinArrayOfsMapEntries(a1, a2, gav) ==
    Arr([i \in 1..Max(ArrLen(a1), ArrLen(a2)) |->
            LET p1 == ArrAt(a1, i, KV(Empty, Empty))
                p2 == ArrAt(a2, i, KV(Empty, Empty))
            IN  IF p1[2] = Void /\ p2[2] = Void THEN KV(Void, Void)
                ELSE KV(getAbstractValue(gav, p1[2], p2[2]),
                        getAbstractValue(gav, p1[3], p2[3]))])

joinArrays(v1, v2, gav) ==
    LET e == IF ArrLen(v1) > 0 THEN v1[2][1]
             ELSE IF ArrLen(v2) > 0 THEN v2[2][1] ELSE Void
    IN  IF e # Void /\ e[1] # "kv" THEN joinArraysOfValues(v1, v2, gav)
        ELSE joinArrayOfsMapEntries(v1, v2, gav)

\* The outcome of a failed invariant(...) inside a value computation.
InvariantViolation == <<"invariantViolation">>

\* The test of joinValues when it never holds.
joinValuesKeepsNever(v1, v2) == FALSE

\* The test of joinValues: both known, both concrete, strictly equal.
joinValuesKeepsV1(v1, v2) ==
    /\ v1 # Void
    /\ v2 # Void
    /\ ~IsAbstract(v1)
    /\ ~IsAbstract(v2)
    /\ StrictEqualityComparison(v1, v2)

joinValues(v1, v2, gav) ==
    IF IsArray(v1) \/ IsArray(v2)
    THEN IF (v1 = Void \/ IsArray(v1)) /\ (v2 = Void \/ IsArray(v2))
         THEN joinArrays(v1, v2, gav)
         ELSE InvariantViolation
    ELSE IF joinValuesKeepsV1(v1, v2) THEN v1
         ELSE getAbstractValue(gav, v1, v2)

\* The calls joinValues makes to getAbstractValue on scalar arguments, in
\* order, each as the pair of its arguments.
joinValuesCalls(v1, v2) ==
    IF joinValuesKeepsV1(v1, v2) THEN <<>> ELSE << <<v1, v2>> >>

(***************************************************************************)
(* Generators: gens[g] = [name, entries, pathConditions].  The operators   *)
(* take the generator heap G and give the heap after the call.             *)
(***************************************************************************)
\* realm.pathConditions, the ambient path conditions.
realmPathConditions == <<>>

\* new Generator(realm, name, pathConditions); the new object is Len(G) + 1.
NewGenerator(G, name, pcs) ==
    Append(G, [name |-> name, entries |-> <<>>, pathConditions |-> pcs])

\* Generator.empty()
GeneratorEmpty(G, g) == G[g].entries = <<>>

\* Generator.appendGenerator(other, ""): g receives the entries of other.
appendGenerator(G, g, other) ==
    [G EXCEPT ![g].entries = @ \o G[other].entries]

\* Generator.emitBindingAssignment(binding, value)
emitBindingAssignment(G, g, b, v) ==
    [G EXCEPT ![g].entries = Append(@, <<"assign", b, v>>)]

\* Generator.joinGenerators(joinCondition, generator1, generator2): one
\* entry "generator1 under joinCondition, else generator2".
emitJoinedGenerators(G, g, cond, g1, g2) ==
    [G EXCEPT ![g].entries = Append(@, <<"join", cond, g1, g2>>)]

\* function joinGenerators: the heap after the call; the result is the
\* last generator of that heap.
joinGenerators(G, cond, g1, g2) ==
    LET G1 == NewGenerator(G, "joined", realmPathConditions)
        r == Len(G1)
    IN  IF ~GeneratorEmpty(G, g1) \/ ~GeneratorEmpty(G, g2)
        THEN emitJoinedGenerators(G1, r, cond, g1, g2)
        ELSE G1

\* JoinImplementation.composeGenerators: the result is the last generator
\* of the heap returned.
composeGenerators(G, g1, g2) ==
    LET G1 == NewGenerator(G, "composed",
                           G[g1].pathConditions \o G[g2].pathConditions)
        r == Len(G1)
        G2 == IF ~GeneratorEmpty(G, g1) THEN appendGenerator(G1, r, g1) ELSE G1
    IN  IF ~GeneratorEmpty(G, g2) THEN appendGenerator(G2, r, g2) ELSE G2

(***************************************************************************)
(* Maps (JavaScript Map): a sequence of <<key, value>> pairs in insertion  *)
(* order, each key once.                                                   *)
(***************************************************************************)
MapKeys(m) == [i \in 1..Len(m) |-> m[i][1]]

MapHas(m, k) == \E i \in 1..Len(m) : m[i][1] = k

\* Map.get: undefined for a missing key.
MapGet(m, k) ==
    IF MapHas(m, k) THEN m[CHOOSE i \in 1..Len(m) : m[i][1] = k][2] ELSE Void

\* Map.set: an existing key keeps its place, a new key goes last.
MapSet(m, k, v) ==
    IF MapHas(m, k)
    THEN [i \in 1..Len(m) |-> IF m[i][1] = k THEN <<k, v>> ELSE m[i]]
    ELSE Append(m, <<k, v>>)

(***************************************************************************)
(* Binding entries and descriptors                                         *)
(***************************************************************************)
\* A BindingEntry {hasLeaked, value, previousHasLeaked, previousValue};
\* previousHasLeaked is "true", "false" or "void".
Entry(hasLeaked, value, previousHasLeaked, previousValue) ==
    <<"entry", hasLeaked, value, previousHasLeaked, previousValue>>

\* A descriptor object is <<tag, id, value, attrs, getter>>: id is the
\* object's number (0 for a clone), attrs stands for writable, enumerable
\* and configurable.  A data descriptor:
DataDesc(id, value, attrs) == <<"data", id, value, attrs, Void>>

\* An accessor descriptor.
AccessorDesc(id, getter, attrs) == <<"accessor", id, Void, attrs, getter>>

\* A conditional descriptor {joinCondition, descriptor1, descriptor2}
JoinedDesc(cond, d1, d2) == <<"joined", cond, d1, d2>>

\* IsDataDescriptor(realm, d): d has a value (or writable) field.
IsDataDescriptor(d) == d[1] \in {"data", "mixed"}

\* equalDescriptors(d1, d2): the attributes and accessors agree; the values
\* are not compared.
equalDescriptors(d1, d2) ==
    /\ d1[1] # "joined"
    /\ d2[1] # "joined"
    /\ d1[4] = d2[4]
    /\ d1[5] = d2[5]

\* cloneDescriptor(d): a new object with the fields of d.
cloneDescriptor(d) ==
    IF d = Void THEN Void
    ELSE IF d[1] = "joined" THEN d
    ELSE [d EXCEPT ![2] = 0]

\* d.value = v on a descriptor object; an accessor descriptor that is given
\* a value has both kinds of fields.
WithValue(d, v) ==
    [d EXCEPT ![1] = IF @ = "accessor" THEN "mixed" ELSE @, ![3] = v]

(***************************************************************************)
(* joinDescriptors                                                         *)
(***************************************************************************)
\* clone_with_abstract_value putting the empty value on the side the
\* descriptor came from.
clone_with_abstract_valueOtherSide(cond, d, isD1) ==
    LET gav == PlainGav(cond)
        side(e) == IF isD1 THEN getAbstractValue(gav, Empty, e)
                   ELSE getAbstractValue(gav, e, Empty)
    IN  IF ~IsDataDescriptor(d) THEN JoinedDesc(cond, Void, Void)
        ELSE LET dc == cloneDescriptor(d)
                 dcValue == dc[3]
             IN  IF IsArray(dcValue)
                 THEN IF Len(dcValue[2]) = 0 THEN InvariantViolation
                      ELSE IF dcValue[2][1][1] # "kv"
                      THEN WithValue(dc, Arr([i \in 1..Len(dcValue[2]) |->
                                                 side(dcValue[2][i])]))
                      ELSE WithValue(dc, Arr([i \in 1..Len(dcValue[2]) |->
                                                 KV(side(dcValue[2][i][2]),
                                                    side(dcValue[2][i][3]))]))
                 ELSE WithValue(dc, side(dcValue))

\* The closure clone_with_abstract_value(d); isD1 is the test d === d1.
clone_with_abstract_value(cond, d, isD1) ==
    LET gav == PlainGav(cond)
        side(e) == IF isD1 THEN getAbstractValue(gav, e, Empty)
                   ELSE getAbstractValue(gav, Empty, e)
    IN  IF ~IsDataDescriptor(d) THEN JoinedDesc(cond, Void, Void)
        ELSE LET dc == cloneDescriptor(d)
                 dcValue == dc[3]
             IN  IF IsArray(dcValue)
                 THEN IF Len(dcValue[2]) = 0 THEN InvariantViolation
                      ELSE IF dcValue[2][1][1] # "kv"
                      THEN WithValue(dc, Arr([i \in 1..Len(dcValue[2]) |->
                                                 side(dcValue[2][i])]))
                      ELSE WithValue(dc, Arr([i \in 1..Len(dcValue[2]) |->
                                                 KV(side(dcValue[2][i][2]),
                                                    side(dcValue[2][i][3]))]))
                 ELSE WithValue(dc, side(dcValue))

joinDescriptors(cond, d1, d2) ==
    IF d1 = Void
    THEN IF d2 = Void THEN Void
         ELSE LET d3 == clone_with_abstract_value(cond, d2, FALSE)
              IN  IF ~IsDataDescriptor(d2) THEN [d3 EXCEPT ![4] = d2] ELSE d3
    ELSE IF d2 = Void
    THEN LET d3 == clone_with_abstract_value(cond, d1, TRUE)
         IN  IF ~IsDataDescriptor(d1) THEN [d3 EXCEPT ![3] = d1] ELSE d3
    ELSE IF equalDescriptors(d1, d2) /\ IsDataDescriptor(d1)
    THEN WithValue(cloneDescriptor(d1),
                   joinValues(d1[3], d2[3], PlainGav(cond)))
    ELSE JoinedDesc(cond, d1, d2)

(***************************************************************************)
(* The join closures handed to joinMaps.  A closure is a tagged tuple of   *)
(* what it captured; the state st it works on is                           *)
(*   G, g1, g2, rewritten1, rewritten2: the generator heap and the         *)
(*        variables of joinBindings that its closure reassigns;            *)
(*   log: the calls made to the closure, as <<key, val1, val2>>;           *)
(*   err: "" or the error that ended the call.                             *)
(***************************************************************************)
\* leak appending the assignment to the generator it is given.
leakInPlace(G, b, g, v, rewritten) ==
    [G |-> IF v # Void /\ v # Undefined THEN emitBindingAssignment(G, g, b, v)
           ELSE G,
     g |-> g, rewritten |-> TRUE]

\* The closure leak(b, g, v, rewritten) of joinBindings.
leak(G, b, g, v, rewritten) ==
    LET G1 == IF ~rewritten
              THEN NewGenerator(G, "RewrittenToAppendBindingAssignments",
                                G[g].pathConditions)
              ELSE G
        h == IF ~rewritten THEN Len(G1) ELSE g
        G2 == IF ~rewritten /\ ~GeneratorEmpty(G, g)
              THEN appendGenerator(G1, h, g) ELSE G1
        G3 == IF v # Void /\ v # Undefined
              THEN emitBindingAssignment(G2, h, b, v) ELSE G2
    IN  [G |-> G3, g |-> h, rewritten |-> TRUE]

\* The closure join of joinBindings when the side that has not leaked is
\* assigned the other side's value.
joinBindingsJoinOtherValue(cond, B, st, b, b1, b2) ==
    LET l1 == IF b1 = Void THEN B[b][1] ELSE b1[2]
        l2 == IF b2 = Void THEN B[b][1] ELSE b2[2]
        v1 == IF b1 = Void THEN B[b][2] ELSE b1[3]
        v2 == IF b2 = Void THEN B[b][2] ELSE b2[3]
        lk == IF ~l1 /\ l2 THEN leak(st.G, b, st.g1, v2, st.rewritten1)
              ELSE IF l1 /\ ~l2 THEN leak(st.G, b, st.g2, v1, st.rewritten2)
              ELSE [G |-> st.G, g |-> 0, rewritten |-> FALSE]
        st1 == IF ~l1 /\ l2
               THEN [st EXCEPT !.G = lk.G, !.g1 = lk.g, !.rewritten1 = lk.rewritten]
               ELSE IF l1 /\ ~l2
               THEN [st EXCEPT !.G = lk.G, !.g2 = lk.g, !.rewritten2 = lk.rewritten]
               ELSE st
        hasLeaked == l1 \/ l2
        value == IF hasLeaked THEN Void ELSE joinValues(v1, v2, PlainGav(cond))
        previousHasLeaked == IF b1 # Void THEN b1[4]
                             ELSE IF b2 # Void THEN b2[4] ELSE "void"
        previousValue == IF b1 # Void THEN b1[5]
                         ELSE IF b2 # Void THEN b2[5] ELSE Void
    IN  [val |-> Entry(hasLeaked, value, previousHasLeaked, previousValue),
         st |-> st1]

\* The closure join of joinBindings when the joined entry has leaked only
\* if both sides have.
joinBindingsJoinLeakedOnBoth(cond, B, st, b, b1, b2) ==
    LET l1 == IF b1 = Void THEN B[b][1] ELSE b1[2]
        l2 == IF b2 = Void THEN B[b][1] ELSE b2[2]
        v1 == IF b1 = Void THEN B[b][2] ELSE b1[3]
        v2 == IF b2 = Void THEN B[b][2] ELSE b2[3]
        lk == IF ~l1 /\ l2 THEN leak(st.G, b, st.g1, v1, st.rewritten1)
              ELSE IF l1 /\ ~l2 THEN leak(st.G, b, st.g2, v2, st.rewritten2)
              ELSE [G |-> st.G, g |-> 0, rewritten |-> FALSE]
        st1 == IF ~l1 /\ l2
               THEN [st EXCEPT !.G = lk.G, !.g1 = lk.g, !.rewritten1 = lk.rewritten]
               ELSE IF l1 /\ ~l2
               THEN [st EXCEPT !.G = lk.G, !.g2 = lk.g, !.rewritten2 = lk.rewritten]
               ELSE st
        hasLeaked == l1 /\ l2
        value == IF hasLeaked THEN Void ELSE joinValues(v1, v2, PlainGav(cond))
        previousHasLeaked == IF b1 # Void THEN b1[4]
                             ELSE IF b2 # Void THEN b2[4] ELSE "void"
        previousValue == IF b1 # Void THEN b1[5]
                         ELSE IF b2 # Void THEN b2[5] ELSE Void
    IN  [val |-> Entry(hasLeaked, value, previousHasLeaked, previousValue),
         st |-> st1]

\* The closure join(b, b1, b2) of joinBindings; B gives each Binding
\* object's own <<hasLeaked, value>>.
joinBindingsJoin(cond, B, st, b, b1, b2) ==
    LET l1 == IF b1 = Void THEN B[b][1] ELSE b1[2]
        l2 == IF b2 = Void THEN B[b][1] ELSE b2[2]
        v1 == IF b1 = Void THEN B[b][2] ELSE b1[3]
        v2 == IF b2 = Void THEN B[b][2] ELSE b2[3]
        lk == IF ~l1 /\ l2 THEN leak(st.G, b, st.g1, v1, st.rewritten1)
              ELSE IF l1 /\ ~l2 THEN leak(st.G, b, st.g2, v2, st.rewritten2)
              ELSE [G |-> st.G, g |-> 0, rewritten |-> FALSE]
        st1 == IF ~l1 /\ l2
               THEN [st EXCEPT !.G = lk.G, !.g1 = lk.g, !.rewritten1 = lk.rewritten]
               ELSE IF l1 /\ ~l2
               THEN [st EXCEPT !.G = lk.G, !.g2 = lk.g, !.rewritten2 = lk.rewritten]
               ELSE st
        hasLeaked == l1 \/ l2
        value == IF hasLeaked THEN Void ELSE joinValues(v1, v2, PlainGav(cond))
        historyAgrees == b1 = Void \/ b2 = Void
                         \/ (b1[4] = b2[4] /\ b1[5] = b2[5])
        previousHasLeaked == IF b1 # Void THEN b1[4]
                             ELSE IF b2 # Void THEN b2[4] ELSE "void"
        previousValue == IF b1 # Void THEN b1[5]
                         ELSE IF b2 # Void THEN b2[5] ELSE Void
    IN  IF IsArray(value) \/ value = InvariantViolation \/ ~historyAgrees
        THEN [val |-> InvariantViolation, st |-> [st1 EXCEPT !.err = "invariant"]]
        ELSE [val |-> Entry(hasLeaked, value, previousHasLeaked, previousValue),
              st |-> st1]

\* The closure join of joinPropertyBindings when a deleted property is given
\* the descriptor it had before the fork.
joinPropertyBindingsJoinKept(cond, m1, m2, c1, c2, P, b, d1in, d2in) ==
    LET object == P[b][1]
        descriptor == P[b][2]
        d1 == IF d1in # Void THEN d1in ELSE descriptor
        d2 == IF d2in # Void THEN d2in ELSE descriptor
    IN  IF d1in = Void /\ object \in c2 THEN d2in
        ELSE IF d2in = Void /\ object \in c1 THEN d1
        ELSE joinDescriptors(cond, d1, d2)

\* The closure join(b, d1, d2) of joinPropertyBindings; P gives each
\* PropertyBinding's own <<object, descriptor>>.
joinPropertyBindingsJoin(cond, m1, m2, c1, c2, P, b, d1in, d2in) ==
    LET object == P[b][1]
        descriptor == P[b][2]
        deleted(m) == descriptor # Void /\ MapHas(m, b)
        d1 == IF d1in # Void THEN d1in
              ELSE IF deleted(m1) THEN WithValue(cloneDescriptor(descriptor), Empty)
              ELSE descriptor
        d2 == IF d2in # Void THEN d2in
              ELSE IF deleted(m2) THEN WithValue(cloneDescriptor(descriptor), Empty)
              ELSE descriptor
    IN  IF d1in = Void /\ object \in c2 THEN d2in
        ELSE IF d2in = Void /\ object \in c1 THEN d1
        ELSE joinDescriptors(cond, d1, d2)

\* A join closure of the caller's that only records what it is given.
ProbeJoin == <<"probe">>

BindingsJoin(cond, B) == <<"bindings", cond, B>>

PropertyJoin(cond, m1, m2, c1, c2, P) == <<"props", cond, m1, m2, c1, c2, P>>

\* One call join(key, val1, val2) of the closure jn in state st.
JoinApply(jn, st, key, val1, val2) ==
    LET logged == [st EXCEPT !.log = Append(@, <<key, val1, val2>>)]
    IN  CASE jn[1] = "bindings" ->
               joinBindingsJoin(jn[2], jn[3], logged, key, val1, val2)
          [] jn[1] = "props" ->
               LET d == joinPropertyBindingsJoin(jn[2], jn[3], jn[4], jn[5],
                                                 jn[6], jn[7], key, val1, val2)
               IN  [val |-> d,
                    st |-> IF d = InvariantViolation
                           THEN [logged EXCEPT !.err = "invariant"] ELSE logged]
          [] OTHER -> [val |-> <<"joined", key, val1, val2>>, st |-> logged]

\* The state in which a join over the generators g1 and g2 of heap G starts.
JoinState(G, g1, g2) ==
    [G |-> G, g1 |-> g1, g2 |-> g2, rewritten1 |-> FALSE,
     rewritten2 |-> FALSE, log |-> <<>>, err |-> ""]

(***************************************************************************)
(* joinMaps, joinBindings, joinPropertyBindings                            *)
(***************************************************************************)
RECURSIVE joinMapsFirst(_, _, _, _, _, _)
\* m1.forEach(...) from the i-th entry of m1 on; m3 is the map built so far.
joinMapsFirst(m1, m2, jn, i, m3, st) ==
    IF i > Len(m1) \/ st.err # "" THEN [m |-> m3, st |-> st]
    ELSE LET key == m1[i][1]
             val1 == m1[i][2]
             val2 == MapGet(m2, key)
             rest(r) == joinMapsFirst(m1, m2, jn, i + 1,
                                      MapSet(m3, key, r.val), r.st)
         IN  CHOOSE out \in {rest(r) : r \in {JoinApply(jn, st, key, val1, val2)}} :
                 TRUE

RECURSIVE joinMapsSecondAll(_, _, _, _, _, _)
\* m2.forEach(...) without the test that m1 lacks the key.
joinMapsSecondAll(m1, m2, jn, i, m3, st) ==
    IF i > Len(m2) \/ st.err # "" THEN [m |-> m3, st |-> st]
    ELSE LET key == m2[i][1]
             val2 == m2[i][2]
             rest(r) == joinMapsSecondAll(m1, m2, jn, i + 1,
                                          MapSet(m3, key, r.val), r.st)
         IN  CHOOSE out \in {rest(r) :
                                r \in {JoinApply(jn, st, key, Void, val2)}} :
                 TRUE

RECURSIVE joinMapsSecond(_, _, _, _, _, _)
\* m2.forEach(...) from the i-th entry of m2 on.
joinMapsSecond(m1, m2, jn, i, m3, st) ==
    IF i > Len(m2) \/ st.err # "" THEN [m |-> m3, st |-> st]
    ELSE LET key == m2[i][1]
             val2 == m2[i][2]
         IN  IF ~MapHas(m1, key)
             THEN LET rest(r) == joinMapsSecond(m1, m2, jn, i + 1,
                                                MapSet(m3, key, r.val), r.st)
                  IN  CHOOSE out \in {rest(r) :
                                         r \in {JoinApply(jn, st, key, Void, val2)}} :
                          TRUE
             ELSE joinMapsSecond(m1, m2, jn, i + 1, m3, st)

\* joinMaps(m1, m2, join): [m |-> the new map m3, st |-> the closure's state]
joinMaps(m1, m2, jn, st) ==
    CHOOSE out \in {joinMapsSecond(m1, m2, jn, 1, first.m, first.st) :
                       first \in {joinMapsFirst(m1, m2, jn, 1, <<>>, st)}} : TRUE

\* joinBindings(realm, joinCondition, g1, m1, g2, m2) on generator heap G:
\* [G, g1, g2, bindings, err], the code's [g1, g2, joinedBindings].
joinBindings(G, cond, B, g1, m1, g2, m2) ==
    LET out(r) == [G |-> r.st.G, g1 |-> r.st.g1, g2 |-> r.st.g2,
                   bindings |-> r.m, err |-> r.st.err]
    IN  CHOOSE o \in {out(r) : r \in {joinMaps(m1, m2, BindingsJoin(cond, B),
                                                JoinState(G, g1, g2))}} : TRUE

\* joinPropertyBindings(realm, joinCondition, m1, m2, c1, c2)
joinPropertyBindings(cond, P, m1, m2, c1, c2) ==
    LET out(r) == [properties |-> r.m, err |-> r.st.err]
    IN  CHOOSE o \in {out(r) : r \in {joinMaps(m1, m2,
                                                PropertyJoin(cond, m1, m2, c1, c2, P),
                                                JoinState(<<>>, 0, 0))}} : TRUE

(***************************************************************************)
(* Completions and Effects records.  H = [comps, effs, gens] is the heap   *)
(* an operation works on; an operation gives [H, r, err]: the heap after   *)
(* it, the object it returns and "" or the error it raised ("invariant":   *)
(* a failed invariant(...), "FatalError": a thrown FatalError), with the   *)
(* condition given to AbstractValue.reportIntrospectionError, if any.      *)
(***************************************************************************)
Ok(H, r) == [H |-> H, r |-> r, err |-> "", reported |-> Void]

\* invariant(false)
Fail(H, e) == [H |-> H, r |-> 0, err |-> e, reported |-> Void]

\* AbstractValue.reportIntrospectionError(cond); throw new FatalError()
ReportAndThrow(H, cond) ==
    [H |-> H, r |-> 0, err |-> "FatalError", reported |-> cond]

\* A completion object of the given class, not attached to any Effects.
Completion(kind, value, target) ==
    [kind |-> kind, value |-> value, target |-> target, effects |-> 0,
     joinCondition |-> Void, consequent |-> 0, alternate |-> 0,
     savedEffects |-> 0, savedPathConditions |-> <<>>]

\* c instanceof AbruptCompletion
IsAbruptCompletion(C) ==
    C.kind \in {"Break", "Continue", "Return", "Throw", "Forked"}

\* c instanceof NormalCompletion
IsNormalCompletion(C) == C.kind \in {"Simple", "PNC"}

\* The heap with one more completion object; the new object is Len(comps).
NewCompletion(H, C) == [H EXCEPT !.comps = Append(@, C)]

\* new Effects(result, generator, bindings, propertyBindings, createdObjects):
\* the new record is Len(effs) and result is linked back to it.
NewEffects(H, result, generator, mb, mp, co) ==
    [H EXCEPT !.effs = Append(@, [result |-> result, generator |-> generator,
                                  modifiedBindings |-> mb,
                                  modifiedProperties |-> mp,
                                  createdObjects |-> co]),
              !.comps = [@ EXCEPT ![result].effects = Len(H.effs) + 1]]

\* Effects.shallowCloneWithResult(result)
shallowCloneWithResult(H, e, result) ==
    NewEffects(H, result, H.effs[e].generator, H.effs[e].modifiedBindings,
               H.effs[e].modifiedProperties, H.effs[e].createdObjects)

\* new XCompletion(value, precedingEffects, location, target): the new
\* completion is attached to a shallow clone of precedingEffects.
NewCompletionWithEffects(H, kind, value, target, precedingEffects) ==
    LET H1 == NewCompletion(H, Completion(kind, value, target))
    IN  shallowCloneWithResult(H1, precedingEffects, Len(H1.comps))

\* new PossiblyNormalCompletion(value, joinCondition, consequent, alternate,
\*                              savedPathConditions, savedEffects)
NewPossiblyNormalCompletion(H, value, cond, consequent, alternate, spc, se) ==
    NewCompletion(H, [Completion("PNC", value, "") EXCEPT
                         !.joinCondition = cond, !.consequent = consequent,
                         !.alternate = alternate, !.savedEffects = se,
                         !.savedPathConditions = spc])

\* new ForkedAbruptCompletion(realm, joinCondition, consequent, alternate)
NewForkedAbruptCompletion(H, cond, consequent, alternate) ==
    NewCompletion(H, [Completion("Forked", Empty, "") EXCEPT
                         !.joinCondition = cond, !.consequent = consequent,
                         !.alternate = alternate])

\* construct_empty_effects(realm): the new record is Len(effs).
construct_empty_effects(H) ==
    LET H1 == NewCompletion(H, Completion("Simple", Empty, ""))
        H2 == [H1 EXCEPT !.gens = NewGenerator(@, "construct_empty_effects",
                                               realmPathConditions)]
    IN  NewEffects(H2, Len(H2.comps), Len(H2.gens), <<>>, <<>>, {})

RECURSIVE getNormalCompletion(_, _)
\* PossiblyNormalCompletion.getNormalCompletion(): the open simple leaf
\* (0 when there is none).
getNormalCompletion(H, c) ==
    LET C == H.comps[c]
    IN  IF H.comps[C.alternate].kind = "Simple" THEN C.alternate
        ELSE IF H.comps[C.consequent].kind = "Simple" THEN C.consequent
        ELSE IF H.comps[C.alternate].kind = "PNC"
        THEN getNormalCompletion(H, C.alternate)
        ELSE IF H.comps[C.consequent].kind = "PNC"
        THEN getNormalCompletion(H, C.consequent)
        ELSE 0

(***************************************************************************)
(* joinNormalCompletions, joinOrForkResults, collapseResults               *)
(***************************************************************************)
joinNormalCompletions(H, cond, c, ce, a, ae) ==
    LET rv == joinValues(H.comps[c].value, H.comps[a].value, EmptyAwareGav(cond))
    IN  IF IsArray(rv) \/ rv = InvariantViolation THEN Fail(H, "invariant")
        ELSE LET H1 == [H EXCEPT !.comps[a].value = rv]
                 H2 == NewPossiblyNormalCompletion(H1, rv, cond, c, a, <<>>, 0)
             IN  Ok(H2, Len(H2.comps))

\* The two branches "one abrupt, one normal" of joinOrForkResults; normal
\* is the side that is not abrupt.
joinOrForkOneAbrupt(H, cond, result1, result2, normal) ==
    LET N == H.comps[normal]
        completion == IF N.kind = "PNC" THEN getNormalCompletion(H, normal)
                      ELSE normal
        savedEffects == IF N.kind = "PNC" THEN N.savedEffects ELSE 0
        savedPathConditions == IF N.kind = "PNC" THEN N.savedPathConditions
                               ELSE <<>>
    IN  IF completion = 0 \/ H.comps[completion].kind # "Simple"
        THEN Fail(H, "invariant")
        ELSE LET H1 == NewPossiblyNormalCompletion(
                           H, H.comps[completion].value, cond, result1, result2,
                           savedPathConditions, savedEffects)
             IN  Ok(H1, Len(H1.comps))

\* joinOrForkResults without its test for a Reference.
joinOrForkResultsUnchecked(H, cond, result1, result2, e1, e2) ==
    LET R1 == H.comps[result1]
        R2 == H.comps[result2]
    IN  IF ~(/\ R1.effects = e1 /\ H.effs[e1].result = result1
             /\ R2.effects = e2 /\ H.effs[e2].result = result2)
        THEN Fail(H, "invariant")
        ELSE IF R1.kind = "Simple" /\ R2.kind = "Simple"
        THEN LET val == joinValues(R1.value, R2.value, PlainGav(cond))
             IN  IF IsArray(val) \/ val = InvariantViolation
                 THEN Fail(H, "invariant")
                 ELSE LET H1 == NewCompletion(H, Completion("Simple", val, ""))
                      IN  Ok(H1, Len(H1.comps))
        ELSE IF IsAbruptCompletion(R1) /\ IsAbruptCompletion(R2)
        THEN LET H1 == NewForkedAbruptCompletion(H, cond, result1, result2)
             IN  Ok(H1, Len(H1.comps))
        ELSE IF IsNormalCompletion(R1) /\ IsNormalCompletion(R2)
        THEN joinNormalCompletions(H, cond, result1, e1, result2, e2)
        ELSE IF IsAbruptCompletion(R1)
        THEN joinOrForkOneAbrupt(H, cond, result1, result2, result2)
        ELSE IF IsAbruptCompletion(R2)
        THEN joinOrForkOneAbrupt(H, cond, result1, result2, result1)
        ELSE Fail(H, "invariant")

\* joinOrForkResults returning an open fork for two abrupt completions.
joinOrForkResultsOpenFork(H, cond, result1, result2, e1, e2) ==
    LET R1 == H.comps[result1]
        R2 == H.comps[result2]
    IN  IF ~(/\ R1.effects = e1 /\ H.effs[e1].result = result1
             /\ R2.effects = e2 /\ H.effs[e2].result = result2)
        THEN Fail(H, "invariant")
        ELSE IF R1.kind = "Simple" /\ R2.kind = "Simple"
        THEN LET H1 == NewCompletion(H, Completion("Simple",
                           joinValues(R1.value, R2.value, PlainGav(cond)), ""))
             IN  Ok(H1, Len(H1.comps))
        ELSE IF IsAbruptCompletion(R1) /\ IsAbruptCompletion(R2)
        THEN LET H1 == NewPossiblyNormalCompletion(H, Empty, cond, result1,
                                                   result2, <<>>, 0)
             IN  Ok(H1, Len(H1.comps))
        ELSE IF IsNormalCompletion(R1) /\ IsNormalCompletion(R2)
        THEN joinNormalCompletions(H, cond, result1, e1, result2, e2)
        ELSE IF IsAbruptCompletion(R1)
        THEN joinOrForkOneAbrupt(H, cond, result1, result2, result2)
        ELSE joinOrForkOneAbrupt(H, cond, result1, result2, result1)

joinOrForkResults(H, cond, result1, result2, e1, e2) ==
    LET R1 == H.comps[result1]
        R2 == H.comps[result2]
    IN  IF ~(/\ R1.effects = e1 /\ H.effs[e1].result = result1
             /\ R2.effects = e2 /\ H.effs[e2].result = result2)
        THEN Fail(H, "invariant")
        ELSE IF R1.kind = "Reference" \/ R2.kind = "Reference"
        THEN ReportAndThrow(H, cond)
        ELSE IF R1.kind = "Simple" /\ R2.kind = "Simple"
        THEN LET val == joinValues(R1.value, R2.value, PlainGav(cond))
             IN  IF IsArray(val) \/ val = InvariantViolation
                 THEN Fail(H, "invariant")
                 ELSE LET H1 == NewCompletion(H, Completion("Simple", val, ""))
                      IN  Ok(H1, Len(H1.comps))
        ELSE IF IsAbruptCompletion(R1) /\ IsAbruptCompletion(R2)
        THEN LET H1 == NewForkedAbruptCompletion(H, cond, result1, result2)
             IN  Ok(H1, Len(H1.comps))
        ELSE IF IsNormalCompletion(R1) /\ IsNormalCompletion(R2)
        THEN joinNormalCompletions(H, cond, result1, e1, result2, e2)
        ELSE IF IsAbruptCompletion(R1)
        THEN joinOrForkOneAbrupt(H, cond, result1, result2, result2)
        ELSE IF IsAbruptCompletion(R2)
        THEN joinOrForkOneAbrupt(H, cond, result1, result2, result1)
        ELSE Fail(H, "invariant")

\* collapseResults giving two throws the conditional value whatever their
\* values are.
collapseResultsConditionalThrow(H, cond, precedingEffects, result1, result2) ==
    LET R1 == H.comps[result1]
        R2 == H.comps[result2]
        gav == EmptyAwareGav(cond)
        make(kind, val, target) ==
            IF IsArray(val) \/ val = InvariantViolation THEN Fail(H, "invariant")
            ELSE LET H1 == NewCompletionWithEffects(H, kind, val, target,
                                                    precedingEffects)
                 IN  Ok(H1, Len(H1.comps))
    IN  IF R1.kind = "Break" /\ R2.kind = "Break" /\ R1.target = R2.target
        THEN make("Break", joinValues(R1.value, R2.value, gav), R1.target)
        ELSE IF R1.kind = "Continue" /\ R2.kind = "Continue"
                /\ R1.target = R2.target
        THEN make("Continue", Empty, R1.target)
        ELSE IF R1.kind = "Return" /\ R2.kind = "Return"
        THEN make("Return", joinValues(R1.value, R2.value, gav), "")
        ELSE IF R1.kind = "Throw" /\ R2.kind = "Throw"
        THEN make("Throw", createFromConditionalOp(cond, R1.value, R2.value), "")
        ELSE IF R1.kind = "Simple" /\ R2.kind = "Simple"
        THEN make("Simple", getAbstractValue(gav, R1.value, R2.value), "")
        ELSE ReportAndThrow(H, cond)

\* collapseResults matching two breaks whatever their targets are.
collapseResultsAnyTarget(H, cond, precedingEffects, result1, result2) ==
    LET R1 == H.comps[result1]
        R2 == H.comps[result2]
        gav == EmptyAwareGav(cond)
        make(kind, val, target) ==
            IF IsArray(val) \/ val = InvariantViolation THEN Fail(H, "invariant")
            ELSE LET H1 == NewCompletionWithEffects(H, kind, val, target,
                                                    precedingEffects)
                 IN  Ok(H1, Len(H1.comps))
    IN  IF R1.kind = "Break" /\ R2.kind = "Break"
        THEN make("Break", joinValues(R1.value, R2.value, gav), R1.target)
        ELSE IF R1.kind = "Continue" /\ R2.kind = "Continue"
                /\ R1.target = R2.target
        THEN make("Continue", Empty, R1.target)
        ELSE IF R1.kind = "Return" /\ R2.kind = "Return"
        THEN make("Return", joinValues(R1.value, R2.value, gav), "")
        ELSE IF R1.kind = "Throw" /\ R2.kind = "Throw"
        THEN make("Throw", joinValues(R1.value, R2.value, PlainGav(cond)), "")
        ELSE IF R1.kind = "Simple" /\ R2.kind = "Simple"
        THEN make("Simple", getAbstractValue(gav, R1.value, R2.value), "")
        ELSE ReportAndThrow(H, cond)

collapseResults(H, cond, precedingEffects, result1, result2) ==
    LET R1 == H.comps[result1]
        R2 == H.comps[result2]
        gav == EmptyAwareGav(cond)
        make(kind, val, target) ==
            IF IsArray(val) \/ val = InvariantViolation THEN Fail(H, "invariant")
            ELSE LET H1 == NewCompletionWithEffects(H, kind, val, target,
                                                    precedingEffects)
                 IN  Ok(H1, Len(H1.comps))
    IN  IF R1.kind = "Break" /\ R2.kind = "Break" /\ R1.target = R2.target
        THEN make("Break", joinValues(R1.value, R2.value, gav), R1.target)
        ELSE IF R1.kind = "Continue" /\ R2.kind = "Continue"
                /\ R1.target = R2.target
        THEN make("Continue", Empty, R1.target)
        ELSE IF R1.kind = "Return" /\ R2.kind = "Return"
        THEN make("Return", joinValues(R1.value, R2.value, gav), "")
        ELSE IF R1.kind = "Throw" /\ R2.kind = "Throw"
        THEN make("Throw", joinValues(R1.value, R2.value, PlainGav(cond)), "")
        ELSE IF R1.kind = "Simple" /\ R2.kind = "Simple"
        THEN make("Simple", getAbstractValue(gav, R1.value, R2.value), "")
        ELSE ReportAndThrow(H, cond)

(***************************************************************************)
(* joinForkOrChoose                                                        *)
(***************************************************************************)
\* joinForkOneAbrupt without the reset of the other side's generator.
joinForkOneAbruptKeeping(H, emptyGenerator, result, other) ==
    IF H.comps[result].kind # "PNC" THEN Fail(H, "invariant")
    ELSE LET E == H.effs[other]
             H2 == NewEffects(H, result, E.generator, E.modifiedBindings,
                              E.modifiedProperties, E.createdObjects)
         IN  Ok(H2, Len(H2.effs))

\* The part of joinForkOrChoose after joinOrForkResults when exactly one
\* result is abrupt: other is the Effects record of the side that is not
\* abrupt.
joinForkOneAbrupt(H, emptyGenerator, result, other) ==
    IF H.comps[result].kind # "PNC" THEN Fail(H, "invariant")
    ELSE LET E == H.effs[other]
             H1 == [H EXCEPT !.effs[other].generator = emptyGenerator]
             H2 == NewEffects(H1, result, E.generator, E.modifiedBindings,
                              E.modifiedProperties, E.createdObjects)
         IN  Ok(H2, Len(H2.effs))

\* joinForkBoth with the second side's created objects left out.
joinForkBothFirstCreated(H, B, P, cond, result, E1, E2) ==
    LET createdObjects == E1.createdObjects
        joined(jb, jp) ==
            LET G == joinGenerators(jb.G, cond, jb.g1, jb.g2)
                H1 == NewEffects([H EXCEPT !.gens = G], result, Len(G),
                                 jb.bindings, jp.properties, createdObjects)
            IN  IF jb.err # "" THEN Fail([H EXCEPT !.gens = jb.G], jb.err)
                ELSE IF jp.err # "" THEN Fail([H EXCEPT !.gens = jb.G], jp.err)
                ELSE Ok(H1, Len(H1.effs))
    IN  CHOOSE out \in
            {joined(jb, jp) :
                jb \in {joinBindings(H.gens, cond, B, E1.generator,
                                     E1.modifiedBindings, E2.generator,
                                     E2.modifiedBindings)},
                jp \in {joinPropertyBindings(cond, P, E1.modifiedProperties,
                                             E2.modifiedProperties,
                                             E1.createdObjects,
                                             E2.createdObjects)}} : TRUE

\* The part of joinForkOrChoose that joins the two sides' bindings,
\* properties, created objects and generators around the joined result.
joinForkBoth(H, B, P, cond, result, E1, E2) ==
    LET createdObjects == E1.createdObjects \cup E2.createdObjects
        joined(jb, jp) ==
            LET G == joinGenerators(jb.G, cond, jb.g1, jb.g2)
                H1 == NewEffects([H EXCEPT !.gens = G], result, Len(G),
                                 jb.bindings, jp.properties, createdObjects)
            IN  IF jb.err # "" THEN Fail([H EXCEPT !.gens = jb.G], jb.err)
                ELSE IF jp.err # "" THEN Fail([H EXCEPT !.gens = jb.G], jp.err)
                ELSE Ok(H1, Len(H1.effs))
    IN  CHOOSE out \in
            {joined(jb, jp) :
                jb \in {joinBindings(H.gens, cond, B, E1.generator,
                                     E1.modifiedBindings, E2.generator,
                                     E2.modifiedBindings)},
                jp \in {joinPropertyBindings(cond, P, E1.modifiedProperties,
                                             E2.modifiedProperties,
                                             E1.createdObjects,
                                             E2.createdObjects)}} : TRUE

\* joinForkOrChoose after its two short-circuits.
joinForkUndecided(H, B, P, cond, e1, e2) ==
    IF ~IsAbstract(cond) THEN Fail(H, "invariant")
    ELSE LET E1 == H.effs[e1]
             E2 == H.effs[e2]
             abrupt1 == IsAbruptCompletion(H.comps[E1.result])
             abrupt2 == IsAbruptCompletion(H.comps[E2.result])
         IN  IF H.comps[E1.result].effects # e1 \/ H.comps[E2.result].effects # e2
             THEN Fail(H, "invariant")
             ELSE LET joined(emptyGenerator, jr) ==
                          IF jr.err # "" THEN jr
                          ELSE IF abrupt1 /\ ~abrupt2
                          THEN joinForkOneAbrupt(jr.H, emptyGenerator, jr.r, e2)
                          ELSE IF ~abrupt1 /\ abrupt2
                          THEN joinForkOneAbrupt(jr.H, emptyGenerator, jr.r, e1)
                          ELSE joinForkBoth(jr.H, B, P, cond, jr.r, E1, E2)
                      afterEmpty(H1) ==
                          CHOOSE out \in
                              {joined(H1.effs[Len(H1.effs)].generator, jr) :
                                  jr \in {joinOrForkResults(H1, cond, E1.result,
                                                            E2.result, e1, e2)}} :
                              TRUE
                  IN  CHOOSE out \in {afterEmpty(H1) :
                                         H1 \in {construct_empty_effects(H)}} : TRUE

\* joinForkOrChoose with the results of its two short-circuits exchanged.
joinForkOrChooseExchanged(H, B, P, cond, e1, e2) ==
    IF ~mightNotBeTrue(cond) THEN Ok(H, e2)
    ELSE IF ~mightNotBeFalse(cond) THEN Ok(H, e1)
    ELSE joinForkUndecided(H, B, P, cond, e1, e2)

joinForkOrChoose(H, B, P, cond, e1, e2) ==
    IF ~mightNotBeTrue(cond) THEN Ok(H, e1)
    ELSE IF ~mightNotBeFalse(cond) THEN Ok(H, e2)
    ELSE joinForkUndecided(H, B, P, cond, e1, e2)

(***************************************************************************)
(* Composition of completions.  A call is a sequence of steps on the heap: *)
(* each step sees the heap its predecessor left, and a step that raises    *)
(* ends the call.                                                          *)
(***************************************************************************)
\* v is evaluated, then F on its value.
AndThen(v, F(_)) == CHOOSE out \in {F(y) : y \in {v}} : TRUE

\* res is the outcome of a step; F continues the call unless the step raised.
Try(res, F(_)) ==
    CHOOSE out \in {IF y.err # "" THEN y ELSE F(y) : y \in {res}} : TRUE

\* The entry of the key k in the map m.
MapEntry(m, k) == m[CHOOSE i \in 1..Len(m) : m[i][1] = k]

\* m1 after every entry of m2 is set in it, in the order of m2.
MapSetAll(m1, m2) ==
    [i \in 1..Len(m1) |->
        IF MapHas(m2, m1[i][1]) THEN MapEntry(m2, m1[i][1]) ELSE m1[i]]
    \o SelectSeq(m2, LAMBDA en : ~MapHas(m1, en[1]))

\* Effects.result = completion: a completion that belongs to no Effects
\* record is attached to this one; one that belongs to another record
\* would break result.effects === this, a fatal internal error.
setResult(H, e, completion) ==
    IF H.comps[completion].effects \notin {0, e} THEN Fail(H, "invariant")
    ELSE Ok([H EXCEPT !.effs[e].result = completion,
                      !.comps[completion].effects = e], e)

\* Completion.shallowCloneWithoutEffects(): the clone is Len(comps).
shallowCloneWithoutEffects(H, c) ==
    NewCompletion(H, [H.comps[c] EXCEPT !.effects = 0])

\* realm.composeEffects(priorEffects, subsequentEffects): the new record is
\* Len(effs); its result is a clone of the result of subsequentEffects.
composeEffects(H, priorEffects, subsequentEffects) ==
    LET E1 == H.effs[priorEffects]
        E2 == H.effs[subsequentEffects]
        H1 == shallowCloneWithoutEffects(H, E2.result)
        G == composeGenerators(H.gens, E1.generator, E2.generator)
    IN  NewEffects([H1 EXCEPT !.gens = G], Len(H1.comps), Len(G),
                   MapSetAll(E1.modifiedBindings, E2.modifiedBindings),
                   MapSetAll(E1.modifiedProperties, E2.modifiedProperties),
                   E1.createdObjects \cup E2.createdObjects)

\* realm.captureEffects(completion): the record that takes the effects
\* from now on is kept in completion.savedEffects.
captureEffects(H, completion) ==
    AndThen(construct_empty_effects(H), LAMBDA H1 :
        [H1 EXCEPT !.comps[completion].savedEffects = Len(H1.effs)])

RECURSIVE composePossiblyNormalCompletions(_, _, _, _)
RECURSIVE composeOpenSide(_, _, _, _, _, _)
\* The branch of composePossiblyNormalCompletions that continues the side
\* ("consequent" or "alternate") of pnc with c; the call that recurses
\* into that side is given inner as its priorEffects.
composeOpenSide(H, pnc, c, priorEffects, inner, side) ==
    LET P == H.comps[pnc]
        open == IF side = "alternate" THEN P.alternate ELSE P.consequent
        oe == H.comps[open].effects
        made(H1, n) ==
            AndThen(
                IF side = "alternate"
                THEN NewPossiblyNormalCompletion(
                         H1, H.comps[c].value, P.joinCondition, P.consequent,
                         n, P.savedPathConditions, P.savedEffects)
                ELSE NewPossiblyNormalCompletion(
                         H1, H.comps[c].value, P.joinCondition, n,
                         P.alternate, P.savedPathConditions, P.savedEffects),
                LAMBDA H2 : Ok(H2, Len(H2.comps)))
    IN  IF oe = 0 THEN Fail(H, "invariant")
        ELSE IF H.comps[open].kind = "Simple"
        THEN AndThen(shallowCloneWithoutEffects(H, c), LAMBDA H1 :
             AndThen(shallowCloneWithResult(H1, oe, Len(H1.comps)), LAMBDA H2 :
             AndThen(IF priorEffects # 0
                     THEN composeEffects(H2, priorEffects, Len(H2.effs))
                     ELSE H2, LAMBDA H3 :
                 made(H3, H3.effs[Len(H3.effs)].result))))
        ELSE IF H.comps[open].kind # "PNC" THEN Fail(H, "invariant")
        ELSE Try(composePossiblyNormalCompletions(H, open, c, inner),
                 LAMBDA rec :
                     AndThen(shallowCloneWithResult(rec.H, oe, rec.r),
                             LAMBDA H2 : made(H2, rec.r)))

composePossiblyNormalCompletions(H, pnc, c, priorEffects) ==
    IF H.comps[c].savedEffects # 0 THEN Fail(H, "invariant")
    ELSE IF IsAbruptCompletion(H.comps[H.comps[pnc].consequent])
    THEN composeOpenSide(H, pnc, c, priorEffects, priorEffects, "alternate")
    ELSE composeOpenSide(H, pnc, c, priorEffects, 0, "consequent")

RECURSIVE replacePossiblyNormalCompletionWithForkedAbruptCompletion(_, _, _, _)
\* replaceOpenSide composing a simple completion's effects after those of
\* e instead of before them.
replaceOpenSideEffectsFirst(H, x, ac, e) ==
    LET xe == H.comps[x].effects
    IN  IF xe = 0 THEN Fail(H, "invariant")
        ELSE IF H.comps[x].kind = "Simple"
        THEN AndThen(composeEffects(H, e, xe), LAMBDA H1 :
             AndThen(shallowCloneWithoutEffects(H1, ac), LAMBDA H2 :
                 Ok(shallowCloneWithResult(H2, Len(H1.effs), Len(H2.comps)),
                    Len(H2.comps))))
        ELSE IF H.comps[x].kind # "PNC" THEN Fail(H, "invariant")
        ELSE Try(replacePossiblyNormalCompletionWithForkedAbruptCompletion(
                     H, x, ac, e),
                 LAMBDA nx : Ok(shallowCloneWithResult(nx.H, xe, nx.r), nx.r))

\* What replaces the open side x of a fork, given the abrupt completion ac
\* and its record e: the result of composeEffects for a simple completion,
\* the result of recurse(x, x.effects, ac, e) for a nested fork.
replaceOpenSide(H, x, ac, e) ==
    LET xe == H.comps[x].effects
    IN  IF xe = 0 THEN Fail(H, "invariant")
        ELSE IF H.comps[x].kind = "Simple"
        THEN AndThen(composeEffects(H, xe, e), LAMBDA H1 :
                 LET r == H1.effs[Len(H1.effs)].result
                 IN  IF IsAbruptCompletion(H1.comps[r]) THEN Ok(H1, r)
                     ELSE Fail(H1, "invariant"))
        ELSE IF H.comps[x].kind # "PNC" THEN Fail(H, "invariant")
        ELSE Try(replacePossiblyNormalCompletionWithForkedAbruptCompletion(
                     H, x, ac, e),
                 LAMBDA nx : Ok(shallowCloneWithResult(nx.H, xe, nx.r), nx.r))

\* replaceSides giving both open sides of a fork the one completion made
\* for its consequent.
replaceSidesShared(H, pnc, ac, e) ==
    LET joinCondition == H.comps[pnc].joinCondition
        pncc == H.comps[pnc].consequent
        pnca == H.comps[pnc].alternate
        forked(H1, nc, na) ==
            AndThen(NewForkedAbruptCompletion(H1, joinCondition, nc, na),
                    LAMBDA H2 : Ok(H2, Len(H2.comps)))
    IN  IF IsAbruptCompletion(H.comps[pncc])
        THEN Try(replaceOpenSide(H, pnca, ac, e),
                 LAMBDA na : forked(na.H, pncc, na.r))
        ELSE IF IsAbruptCompletion(H.comps[pnca])
        THEN Try(replaceOpenSide(H, pncc, ac, e),
                 LAMBDA nc : forked(nc.H, nc.r, pnca))
        ELSE Try(replaceOpenSide(H, pncc, ac, e),
                 LAMBDA nc : forked(nc.H, nc.r, nc.r))

\* replacePossiblyNormalCompletionWithForkedAbruptCompletion after ac has
\* been cloned and attached to e: the match on (pncc, pnca).
replaceSides(H, pnc, ac, e) ==
    LET joinCondition == H.comps[pnc].joinCondition
        pncc == H.comps[pnc].consequent
        pnca == H.comps[pnc].alternate
        forked(H1, nc, na) ==
            AndThen(NewForkedAbruptCompletion(H1, joinCondition, nc, na),
                    LAMBDA H2 : Ok(H2, Len(H2.comps)))
        \* [ac, e] = cloneEffects(), then the side x
        cloned(H1, x) ==
            AndThen(shallowCloneWithoutEffects(H1, ac), LAMBDA H2 :
            AndThen(shallowCloneWithResult(H2, e, Len(H2.comps)), LAMBDA H3 :
                replaceOpenSide(H3, x, Len(H2.comps), Len(H3.effs))))
    IN  IF IsAbruptCompletion(H.comps[pncc])
        THEN Try(replaceOpenSide(H, pnca, ac, e),
                 LAMBDA na : forked(na.H, pncc, na.r))
        ELSE IF IsAbruptCompletion(H.comps[pnca])
        THEN Try(replaceOpenSide(H, pncc, ac, e),
                 LAMBDA nc : forked(nc.H, nc.r, pnca))
        ELSE IF H.comps[pncc].kind # "Simple" /\ H.comps[pnca].kind = "Simple"
        THEN Try(replaceOpenSide(H, pnca, ac, e), LAMBDA na :
             Try(cloned(na.H, pncc), LAMBDA nc : forked(nc.H, nc.r, na.r)))
        ELSE Try(replaceOpenSide(H, pncc, ac, e), LAMBDA nc :
             Try(cloned(nc.H, pnca), LAMBDA na : forked(na.H, nc.r, na.r)))

replacePossiblyNormalCompletionWithForkedAbruptCompletion(H, pnc, ac, e) ==
    AndThen(shallowCloneWithoutEffects(H, ac), LAMBDA H1 :
        Try(setResult(H1, e, Len(H1.comps)), LAMBDA s :
            replaceSides([s.H EXCEPT !.comps[Len(H1.comps)].effects = e],
                         pnc, Len(H1.comps), e)))

\* ForkedAbruptCompletion.containsCompletion(NormalCompletion)
RECURSIVE containsNormalCompletion(_, _)
containsNormalCompletion(H, c) ==
    LET side(x) == \/ IsNormalCompletion(H.comps[x])
                   \/ /\ H.comps[x].kind = "Forked"
                      /\ containsNormalCompletion(H, x)
    IN  side(H.comps[c].consequent) \/ side(H.comps[c].alternate)

\* ForkedAbruptCompletion.transferChildrenToPossiblyNormalCompletion()
transferChildrenToPossiblyNormalCompletion(H, c) ==
    NewPossiblyNormalCompletion(H, Empty, H.comps[c].joinCondition,
                                H.comps[c].consequent, H.comps[c].alternate,
                                <<>>, 0)

\* ForkedAbruptCompletion.updateConsequentKeepingCurrentEffects and
\* updateAlternateKeepingCurrentEffects: newSide takes the place of the
\* side of c, attached to a record with the effects of the old side.
updateSideKeepingCurrentEffects(H, c, side, newSide) ==
    LET e == H.comps[H.comps[c][side]].effects
    IN  [shallowCloneWithResult(H, e, newSide) EXCEPT !.comps[c][side] = newSide]

RECURSIVE extractAndJoinCompletionsOfType(_, _, _, _, _)
\* extractSide leaving the side of c as it was: the completions of
\* CompletionType are joined and stay in c.
extractSideUnerased(H, B, P, CompletionType, c, side, emptyEffects) ==
    LET child == H.comps[c][side]
        composed(H1) ==
            LET ce == Len(H1.effs)
                H2 == [H1 EXCEPT !.effs[H1.comps[child].effects].generator =
                                     H1.effs[emptyEffects].generator]
            IN  IF H2.comps[H2.effs[ce].result].kind = CompletionType
                THEN Ok(H2, ce)
                ELSE AndThen(NewCompletion(H2, Completion(CompletionType,
                                                          Empty, "")),
                             LAMBDA H3 : setResult(H3, ce, Len(H3.comps)))
    IN  Try(extractAndJoinCompletionsOfType(H, B, P, CompletionType, child),
            LAMBDA r :
                IF r.H.comps[child].effects = 0 THEN Fail(r.H, "invariant")
                ELSE AndThen(composeEffects(r.H, r.H.comps[child].effects, r.r),
                             composed))

\* The part of extractAndJoinCompletionsOfType about one side of c: the
\* completions of CompletionType of that side joined and composed with the
\* side's effects, and the side erased when it was one of them.
extractSide(H, B, P, CompletionType, c, side, emptyEffects) ==
    LET child == H.comps[c][side]
        erased(H2, ce) ==
            IF H2.comps[child].kind = CompletionType
            THEN AndThen(NewCompletion(H2, Completion("Simple", Empty, "")),
                         LAMBDA H3 :
                     Ok(updateSideKeepingCurrentEffects(H3, c, side,
                                                        Len(H3.comps)), ce))
            ELSE IF /\ H2.comps[child].kind = "Forked"
                    /\ containsNormalCompletion(H2, child)
            THEN AndThen(transferChildrenToPossiblyNormalCompletion(H2, child),
                         LAMBDA H3 :
                     Ok(updateSideKeepingCurrentEffects(H3, c, side,
                                                        Len(H3.comps)), ce))
            ELSE Ok(H2, ce)
        composed(H1) ==
            LET ce == Len(H1.effs)
                H2 == [H1 EXCEPT !.effs[H1.comps[child].effects].generator =
                                     H1.effs[emptyEffects].generator]
            IN  IF H2.comps[H2.effs[ce].result].kind = CompletionType
                THEN erased(H2, ce)
                ELSE AndThen(NewCompletion(H2, Completion(CompletionType,
                                                          Empty, "")),
                             LAMBDA H3 : setResult(H3, ce, Len(H3.comps)))
    IN  Try(extractAndJoinCompletionsOfType(H, B, P, CompletionType, child),
            LAMBDA r :
                IF r.H.comps[child].effects = 0 THEN Fail(r.H, "invariant")
                ELSE AndThen(composeEffects(r.H, r.H.comps[child].effects, r.r),
                             composed))

extractAndJoinCompletionsOfType(H, B, P, CompletionType, c) ==
    LET joined(e) ==
            LET R == e.H.comps[e.H.effs[e.r].result]
            IN  IF /\ R.kind = "Forked"
                   /\ e.H.comps[R.consequent].kind = CompletionType
                   /\ e.H.comps[R.alternate].kind = CompletionType
                THEN Try(collapseResults(e.H, R.joinCondition, e.r,
                                         R.consequent, R.alternate),
                         LAMBDA result :
                             IF result.H.comps[result.r].effects = 0
                             THEN Fail(result.H, "invariant")
                             ELSE Ok(result.H, result.H.comps[result.r].effects))
                ELSE e
        forked(H0) ==
            LET emptyEffects == Len(H0.effs)
            IN  IF H0.comps[c].kind = CompletionType
                THEN AndThen(shallowCloneWithoutEffects(H0, c), LAMBDA H1 :
                         setResult(H1, emptyEffects, Len(H1.comps)))
                ELSE IF H0.comps[c].kind # "Forked" THEN Ok(H0, emptyEffects)
                ELSE Try(extractSide(H0, B, P, CompletionType, c, "consequent",
                                     emptyEffects), LAMBDA ce :
                     Try(extractSide(ce.H, B, P, CompletionType, c, "alternate",
                                     emptyEffects), LAMBDA ae :
                     Try(joinForkOrChoose(ae.H, B, P, H0.comps[c].joinCondition,
                                          ce.r, ae.r), joined)))
    IN  AndThen(construct_empty_effects(H), forked)

RECURSIVE joinNestedEffects(_, _, _, _, _)
\* joinNestedEffects writing the result of its new record without
\* attaching the completion to it.
joinNestedEffectsUnattached(H, B, P, c, precedingEffects) ==
    IF H.comps[c].kind \in {"PNC", "Forked"} \/ precedingEffects # 0
    THEN joinNestedEffects(H, B, P, c, precedingEffects)
    ELSE AndThen(construct_empty_effects(H), LAMBDA H1 :
             Ok([H1 EXCEPT !.effs[Len(H1.effs)].result = c], Len(H1.effs)))

\* joinNestedEffects returning the joined record of a fork as it is,
\* without collapsing its result.
joinNestedEffectsUncollapsed(H, B, P, c, precedingEffects) ==
    LET C == H.comps[c]
    IN  IF C.kind \in {"PNC", "Forked"}
        THEN Try(joinNestedEffects(H, B, P, C.consequent,
                                   H.comps[C.consequent].effects), LAMBDA e1 :
             Try(joinNestedEffects(e1.H, B, P, C.alternate,
                                   H.comps[C.alternate].effects), LAMBDA e2 :
                 joinForkOrChoose(e2.H, B, P, C.joinCondition, e1.r, e2.r)))
        ELSE IF precedingEffects # 0 THEN Ok(H, precedingEffects)
        ELSE AndThen(construct_empty_effects(H), LAMBDA H1 :
                 setResult(H1, Len(H1.effs), c))

joinNestedEffects(H, B, P, c, precedingEffects) ==
    LET C == H.comps[c]
        ce == H.comps[C.consequent].effects
        ae == H.comps[C.alternate].effects
        collapsed(r) ==
            IF r.H.comps[r.r].effects = 0 THEN Fail(r.H, "invariant")
            ELSE Ok(r.H, r.H.comps[r.r].effects)
    IN  IF C.kind \in {"PNC", "Forked"}
        THEN IF ce = 0 \/ ae = 0 THEN Fail(H, "invariant")
             ELSE Try(joinNestedEffects(H, B, P, C.consequent, ce), LAMBDA e1 :
                  Try(joinNestedEffects(e1.H, B, P, C.alternate, ae), LAMBDA e2 :
                  Try(joinForkOrChoose(e2.H, B, P, C.joinCondition, e1.r, e2.r),
                      LAMBDA e3 :
                  Try(collapseResults(e3.H, C.joinCondition, e3.r,
                                      e3.H.effs[e1.r].result,
                                      e3.H.effs[e2.r].result), collapsed))))
        ELSE IF precedingEffects # 0 THEN Ok(H, precedingEffects)
        ELSE AndThen(construct_empty_effects(H), LAMBDA H1 :
                 setResult(H1, Len(H1.effs), c))

(***************************************************************************)
(* The update operations: they write the fields of the                     *)
(* PossiblyNormalCompletion objects of an existing fork.                   *)
(***************************************************************************)
\* The side of pnc that is a SimpleNormalCompletion gets the result of
\* realm.composeEffects(its effects, subsequentEffects).
updateSimpleSide(H, pnc, side, subsequentEffects) ==
    LET e == H.comps[H.comps[pnc][side]].effects
    IN  IF e = 0 THEN Fail(H, "invariant")
        ELSE AndThen(composeEffects(H, e, subsequentEffects), LAMBDA H1 :
                 Ok([H1 EXCEPT !.comps[pnc][side] = H1.effs[Len(H1.effs)].result],
                    0))

\* updatePossiblyNormalCompletionWithSubsequentEffects writing the new
\* result in place of an abrupt side as well.
RECURSIVE updateEverySide(_, _, _)
updateEverySide(H, pnc, subsequentEffects) ==
    LET H0 == [H EXCEPT !.comps[pnc].value =
                            H.comps[H.effs[subsequentEffects].result].value]
        step(res, side) ==
            Try(res, LAMBDA x :
                IF x.H.comps[x.H.comps[pnc][side]].kind = "PNC"
                THEN updateEverySide(x.H, x.H.comps[pnc][side], subsequentEffects)
                ELSE updateSimpleSide(x.H, pnc, side, subsequentEffects))
    IN  IF H.comps[H.effs[subsequentEffects].result].kind # "Simple"
        THEN Fail(H, "invariant")
        ELSE step(step(Ok(H0, 0), "consequent"), "alternate")

RECURSIVE updatePossiblyNormalCompletionWithSubsequentEffects(_, _, _)
updatePossiblyNormalCompletionWithSubsequentEffects(H, pnc, subsequentEffects) ==
    LET v == H.comps[H.effs[subsequentEffects].result]
        H0 == [H EXCEPT !.comps[pnc].value = v.value]
        kindOf(side) == H.comps[H.comps[pnc][side]].kind
        update(G, side) ==
            IF kindOf(side) = "Simple"
            THEN updateSimpleSide(G, pnc, side, subsequentEffects)
            ELSE IF kindOf(side) = "PNC"
            THEN updatePossiblyNormalCompletionWithSubsequentEffects(
                     G, H.comps[pnc][side], subsequentEffects)
            ELSE Fail(G, "invariant")
    IN  IF v.kind # "Simple" THEN Fail(H, "invariant")
        ELSE IF IsAbruptCompletion(H.comps[H.comps[pnc].consequent])
        THEN update(H0, "alternate")
        ELSE Try(update(H0, "consequent"), LAMBDA x :
                 IF kindOf("alternate") \in {"Simple", "PNC"}
                 THEN update(x.H, "alternate")
                 ELSE x)

\* realm.simplifyAndRefineAbstractValue(v) inside Path.withCondition or
\* Path.withInverseCondition of cond: the value v stands for on that path.
simplifyAndRefineAbstractValue(v, cond, inverse) ==
    <<"abs", <<"refined", v, cond, inverse>>, "unknown">>

RECURSIVE updatePossiblyNormalCompletionWithValue(_, _, _)
updatePossiblyNormalCompletionWithValue(H, pnc, v) ==
    LET H0 == [H EXCEPT !.comps[pnc].value = v]
        C == H.comps[pnc]
        sv(inverse) == IF IsAbstract(v)
                       THEN simplifyAndRefineAbstractValue(v, C.joinCondition,
                                                           inverse)
                       ELSE v
        \* updateNonAbruptCompletionWithValue(c, val): it writes v, not val,
        \* to a SimpleNormalCompletion (line 512)
        updateNonAbruptCompletionWithValue(G, c, val) ==
            IF G.comps[c].kind = "Simple"
            THEN Ok([G EXCEPT !.comps[c].value = v], 0)
            ELSE IF G.comps[c].kind = "PNC"
            THEN updatePossiblyNormalCompletionWithValue(G, c, val)
            ELSE Fail(G, "invariant")
    IN  IF IsAbruptCompletion(H.comps[C.consequent])
        THEN updateNonAbruptCompletionWithValue(H0, C.alternate, sv(TRUE))
        ELSE Try(updateNonAbruptCompletionWithValue(H0, C.consequent, sv(FALSE)),
                 LAMBDA x :
                 IF ~IsAbruptCompletion(H.comps[C.alternate])
                 THEN updateNonAbruptCompletionWithValue(x.H, C.alternate,
                                                         sv(TRUE))
                 ELSE x)

(***************************************************************************)
(* The evaluator: it evaluates branches, each giving an Effects record     *)
(* linked to its result, and hands the two newest records it holds to the  *)
(* join engine.                                                            *)
(***************************************************************************)
\* The most branch evaluations in a run.
MaxLeaves == 3

\* The most branch evaluations in a run that nests joins of normal results.
MaxNestedLeaves == 4

\* The most completion objects a call may find on the heap.
MaxComps == 8

Heap == [comps |-> comps, effs |-> effs, gens |-> gens]

\* The Binding objects and the PropertyBinding objects of the program.
BindingNames == {"b1", "b2", "b3"}

PropertyNames == {"p1", "p2"}

\* The join conditions: one that cannot be false, one that cannot be true
\* and one that is not decided.
JoinConditions ==
    {Abs("c", "true"), Abs("c", "false"), Abs("c", "unknown")}

\* What a branch may end with: <<class, value, target>>.
LeafResults ==
    { <<"Simple", Num(1, 1), "">>, <<"Simple", Num(2, 1), "">>,
      <<"Throw", Num(1, 1), "">>, <<"Throw", Num(2, 1), "">>,
      <<"Return", Num(1, 1), "">>, <<"Return", Empty, "">>,
      <<"Break", Empty, "L1">>, <<"Break", Empty, "L2">>,
      <<"Continue", Empty, "L1">>, <<"Continue", Empty, "L2">> }

\* What a branch ends with in the runs that fold three branches.
JoinLeafResults ==
    { <<"Simple", Num(1, 1), "">>, <<"Simple", Num(2, 1), "">>,
      <<"Throw", Num(1, 1), "">>, <<"Break", Empty, "L1">>,
      <<"Continue", Empty, "L2">> }

\* What a branch ends with in the runs that nest joins of normal results.
NestedLeafResults ==
    { <<"Simple", Num(1, 1), "">>, <<"Simple", Num(2, 1), "">>,
      <<"Throw", Num(1, 1), "">>, <<"Break", Empty, "L1">> }

\* The branches that also record residual code, binding and property
\* changes and created objects.
RichResults == { <<"Simple", Num(1, 1), "">>, <<"Throw", Num(1, 1), "">> }

\* The entry of a binding changed in a branch: its history is the Binding
\* object's own state.
Changed(b, hasLeaked, value) ==
    <<b, Entry(hasLeaked, value,
               IF bindingObjs[b][1] THEN "true" ELSE "false", bindingObjs[b][2])>>

\* The changes the i-th branch evaluation records when it records any.
LeafBindings(i) ==
    CASE i % 3 = 1 -> << Changed("b1", TRUE, Num(7, 1)) >>
      [] i % 3 = 2 -> << Changed("b1", FALSE, Num(8, 1)),
                         Changed("b2", FALSE, Num(9, 1)) >>
      [] OTHER -> << Changed("b2", TRUE, Num(3, 1)) >>

LeafProperties(i) ==
    CASE i % 3 = 1 -> << <<"p1", DataDesc(1, Num(5, 1), "wec")>> >>
      [] i % 3 = 2 -> << <<"p1", Void>>, <<"p2", DataDesc(2, Num(6, 1), "wec")>> >>
      [] OTHER -> << <<"p1", DataDesc(3, Num(5, 1), "e")>> >>

LeafCreatedObjects(i) ==
    CASE i % 3 = 1 -> {1}
      [] i % 3 = 2 -> {2}
      [] OTHER -> {}

NumLeaves == Cardinality({g \in 1..Len(gens) : gens[g].name = "evaluateForEffects"})

Top == stack[Len(stack)]

Second == stack[Len(stack) - 1]

Rest == SubSeq(stack, 1, Len(stack) - 2)

\* The PropertyBinding objects before the fork: p1 is a property of the
\* object 9 with a descriptor, p2 a property of the object 2 that does not
\* exist yet.
PropertyBindingObjects ==
    [p \in PropertyNames |->
        IF p = "p1" THEN <<9, DataDesc(4, Num(4, 1), "wec")>> ELSE <<2, Void>>]

EmptyHeap == [comps |-> <<>>, effs |-> <<>>, gens |-> <<>>]

\* The call record before any call; a1 and a2 hold what is given to the
\* call of a function on values.
NoCall(cond, a1, a2) ==
    [op |-> "none", cond |-> cond, a1 |-> a1, a2 |-> a2, pe |-> 0, r |-> 0,
     err |-> "", reported |-> Void, log |-> <<>>, pre |-> EmptyHeap]

Init ==
    /\ comps = <<>>
    /\ effs = <<>>
    /\ gens = <<>>
    /\ bindingObjs = [b \in BindingNames |-> <<FALSE, Num(0, 1)>>]
    /\ propBindingObjs = PropertyBindingObjects
    /\ stack = <<>>
    /\ call = NoCall(Void, 0, 0)

\* The heap after realm.evaluateForEffects of a branch that ends with leaf,
\* emits the entries residual and records the changes mb, mp and co: the
\* new Effects record is the last one and its result is linked back to it.
evaluateForEffects(H, leaf, residual, mb, mp, co) ==
    LET H1 == NewCompletion(H, Completion(leaf[1], leaf[2], leaf[3]))
        H2 == [H1 EXCEPT !.gens = Append(@, [name |-> "evaluateForEffects",
                                             entries |-> residual,
                                             pathConditions |-> realmPathConditions])]
    IN  NewEffects(H2, Len(H2.comps), Len(H2.gens), mb, mp, co)

\* realm.evaluateForEffects: one branch is evaluated and gives an Effects
\* record whose result is linked back to it.
EvaluateWithin(leaf, rich, most) ==
    /\ NumLeaves < most
    /\ Len(comps) < MaxComps
    /\ Len(stack) < 2
    /\ rich => leaf \in RichResults
    /\ LET i == NumLeaves + 1
           H4 == IF rich
                 THEN evaluateForEffects(Heap, leaf, << <<"op", i>> >>,
                                         LeafBindings(i), LeafProperties(i),
                                         LeafCreatedObjects(i))
                 ELSE evaluateForEffects(Heap, leaf, <<>>, <<>>, <<>>, {})
       IN  /\ comps' = H4.comps
           /\ effs' = H4.effs
           /\ gens' = H4.gens
           /\ stack' = Append(stack, Len(H4.effs))
           /\ call' = [op |-> "evaluate", cond |-> Void, a1 |-> 0, a2 |-> 0,
                       pe |-> 0, r |-> Len(H4.effs), err |-> "",
                       reported |-> Void, log |-> <<>>, pre |-> Heap]
    /\ UNCHANGED <<bindingObjs, propBindingObjs>>

Evaluate(leaf, rich) == EvaluateWithin(leaf, rich, MaxLeaves)

\* A branch without residual code in a run that nests joins.
EvaluateNested(leaf) == EvaluateWithin(leaf, FALSE, MaxNestedLeaves)

\* The heap, the evaluator's records and the call record after a call.
Returned(op, cond, a1, a2, pe, res, newStack) ==
    /\ comps' = res.H.comps
    /\ effs' = res.H.effs
    /\ gens' = res.H.gens
    /\ stack' = newStack
    /\ call' = [op |-> op, cond |-> cond, a1 |-> a1, a2 |-> a2, pe |-> pe,
                r |-> res.r, err |-> res.err, reported |-> res.reported,
                log |-> <<>>, pre |-> Heap]
    /\ UNCHANGED <<bindingObjs, propBindingObjs>>

\* joinForkOrChoose(realm, cond, e1, e2) on the two newest records.
JoinForkOrChoose(cond, swap) ==
    /\ Len(stack) >= 2
    /\ Len(comps) <= MaxComps
    /\ LET e1 == IF swap THEN Top ELSE Second
           e2 == IF swap THEN Second ELSE Top
       IN  \E res \in {joinForkOrChoose(Heap, bindingObjs, propBindingObjs,
                                         cond, e1, e2)} :
               Returned("joinForkOrChoose", cond, e1, e2, 0, res,
                        IF res.err = "" THEN Append(Rest, res.r) ELSE Rest)

\* joinOrForkResults(realm, cond, e1.result, e2.result, e1, e2)
JoinOrForkResults(cond, swap) ==
    /\ Len(stack) >= 2
    /\ Len(comps) <= MaxComps
    /\ LET e1 == IF swap THEN Top ELSE Second
           e2 == IF swap THEN Second ELSE Top
       IN  \E res \in {joinOrForkResults(Heap, cond, effs[e1].result,
                                          effs[e2].result, e1, e2)} :
               Returned("joinOrForkResults", cond, e1, e2, 0, res, Rest)

\* collapseResults(realm, cond, precedingEffects, e1.result, e2.result)
CollapseResults(cond, pe, swap) ==
    /\ Len(stack) >= 2
    /\ Len(comps) <= MaxComps
    /\ LET e1 == IF swap THEN Top ELSE Second
           e2 == IF swap THEN Second ELSE Top
       IN  \E res \in {collapseResults(Heap, cond, pe, effs[e1].result,
                                        effs[e2].result)} :
               Returned("collapseResults", cond, e1, e2, pe, res,
                        IF res.err = ""
                        THEN Append(Rest, res.H.comps[res.r].effects) ELSE Rest)

\* The evaluator folds up to MaxLeaves branches with joinForkOrChoose.
Next ==
    \/ \E leaf \in JoinLeafResults, rich \in BOOLEAN : Evaluate(leaf, rich)
    \/ \E cond \in JoinConditions, swap \in BOOLEAN : JoinForkOrChoose(cond, swap)
    \/ \E swap \in BOOLEAN : JoinOrForkResults(Abs("c", "unknown"), swap)

Spec == Init /\ [][Next]_vars

\* The results of two branches of every class are joined or collapsed.
NextResults ==
    \/ \E leaf \in LeafResults, rich \in BOOLEAN : Evaluate(leaf, rich)
    \/ \E swap \in BOOLEAN : JoinOrForkResults(Abs("c", "unknown"), swap)
    \/ \E pe \in {stack[i] : i \in 1..Len(stack)}, swap \in BOOLEAN :
          CollapseResults(Abs("c", "unknown"), pe, swap)

SpecResults == Init /\ [][NextResults]_vars

\* Joins nested in joins: a joined record is joined again with a new branch.
NextNested ==
    \/ \E leaf \in NestedLeafResults : EvaluateNested(leaf)
    \/ \E swap \in BOOLEAN : JoinForkOrChoose(Abs("c", "unknown"), swap)
    \/ \E swap \in BOOLEAN : JoinOrForkResults(Abs("c", "unknown"), swap)

SpecNested == Init /\ [][NextNested]_vars

\* What a branch ends with in the runs in which an evaluation may give a
\* bare Reference instead of a completion.
ReferenceLeafResults ==
    { <<"Reference", Void, "">>, <<"Simple", Num(1, 1), "">>,
      <<"Throw", Num(1, 1), "">>, <<"Break", Empty, "L1">> }

\* Records whose result may be a Reference are joined.
NextReference ==
    \/ \E leaf \in ReferenceLeafResults : Evaluate(leaf, FALSE)
    \/ \E cond \in JoinConditions, swap \in BOOLEAN : JoinForkOrChoose(cond, swap)
    \/ \E swap \in BOOLEAN : JoinOrForkResults(Abs("c", "unknown"), swap)

SpecReference == Init /\ [][NextReference]_vars

(***************************************************************************)
(* joinValues on its own: the two values and the getAbstractValue closure  *)
(* are given, the call is made once.                                       *)
(***************************************************************************)
\* The concrete values given to joinValues: two objects hold the number 1.
ConcreteValues ==
    { Undefined, Null, Empty, Bool("true"), Bool("false"), Num(0, 1),
      Num(1, 1), Num(1, 2), Num(2, 1), NaN(1), Str("", 1), Str("a", 1),
      Obj(1), Obj(2) }

\* What joinValues may be given.
OperandValues == ConcreteValues \cup {Abs("x", "unknown"), Void}

InitValues ==
    /\ comps = <<>>
    /\ effs = <<>>
    /\ gens = <<>>
    /\ bindingObjs = [b \in BindingNames |-> <<FALSE, Num(0, 1)>>]
    /\ propBindingObjs = PropertyBindingObjects
    /\ stack = <<>>
    /\ \E v1 \in OperandValues, v2 \in OperandValues,
          gav \in {PlainGav(Abs("c", "unknown")), EmptyAwareGav(Abs("c", "unknown"))} :
          call = NoCall(gav, v1, v2)

\* joinValues(realm, v1, v2, getAbstractValue); log is the calls made to
\* getAbstractValue.
JoinValues ==
    /\ call.op = "none"
    /\ stack = <<>>
    /\ \E r \in {joinValues(call.a1, call.a2, call.cond)} :
          call' = [call EXCEPT !.op = "joinValues", !.r = r,
                               !.err = IF r = InvariantViolation
                                       THEN "invariant" ELSE "",
                               !.log = joinValuesCalls(call.a1, call.a2)]
    /\ UNCHANGED <<comps, effs, gens, bindingObjs, propBindingObjs, stack>>

NextValues == JoinValues

SpecValues == InitValues /\ [][NextValues]_vars

(***************************************************************************)
(* joinDescriptors on its own: the two descriptors are given, the call is  *)
(* made once.                                                              *)
(***************************************************************************)
\* What joinDescriptors may be given for a property: nothing, data
\* descriptors with a value, with equal values in different objects, with
\* other attributes, without a value, with an abstract value, with arrays
\* of values and of map entries, accessor descriptors, and a conditional
\* descriptor of an earlier join.
DescriptorOperands ==
    { Void,
      DataDesc(1, Num(5, 1), "wec"), DataDesc(2, Num(5, 1), "wec"),
      DataDesc(3, Num(6, 1), "wec"), DataDesc(4, Num(5, 1), "e"),
      DataDesc(5, Void, "wec"), DataDesc(6, Abs("x", "unknown"), "wec"),
      DataDesc(7, Arr(<<Num(1, 1), Num(2, 1)>>), "wec"),
      DataDesc(8, Arr(<<Num(3, 1)>>), "wec"),
      DataDesc(9, Arr(<<KV(Str("k", 1), Num(1, 1))>>), "wec"),
      AccessorDesc(10, Obj(7), "wec"), AccessorDesc(11, Obj(8), "wec"),
      JoinedDesc(Abs("c0", "unknown"), DataDesc(12, Num(5, 1), "wec"), Void) }

InitDescriptors ==
    /\ comps = <<>>
    /\ effs = <<>>
    /\ gens = <<>>
    /\ bindingObjs = [b \in BindingNames |-> <<FALSE, Num(0, 1)>>]
    /\ propBindingObjs = PropertyBindingObjects
    /\ stack = <<>>
    /\ \E d1 \in DescriptorOperands, d2 \in DescriptorOperands :
          call = NoCall(Abs("c", "unknown"), d1, d2)

\* joinDescriptors(realm, joinCondition, d1, d2)
JoinDescriptors ==
    /\ call.op = "none"
    /\ stack = <<>>
    /\ \E r \in {joinDescriptors(call.cond, call.a1, call.a2)} :
          call' = [call EXCEPT !.op = "joinDescriptors", !.r = r,
                               !.err = IF r # Void /\ IsDataDescriptor(r)
                                          /\ r[3] = InvariantViolation
                                       THEN "invariant" ELSE ""]
    /\ UNCHANGED <<comps, effs, gens, bindingObjs, propBindingObjs, stack>>

NextDescriptors == JoinDescriptors

SpecDescriptors == InitDescriptors /\ [][NextDescriptors]_vars

(***************************************************************************)
(* The map joins on their own: two branches have been evaluated and one    *)
(* of joinBindings, joinPropertyBindings and joinMaps is called on their   *)
(* maps.                                                                   *)
(***************************************************************************)
\* What a branch may have done to the binding b1 and to the binding b2.
B1Changes ==
    { <<>>, << Changed("b1", FALSE, Num(8, 1)) >>,
      << Changed("b1", FALSE, Undefined) >>,
      << Changed("b1", TRUE, Num(7, 1)) >>,
      << Changed("b1", TRUE, Undefined) >> }

B2Changes ==
    { <<>>, << Changed("b2", FALSE, Num(9, 1)) >>,
      << Changed("b2", FALSE, Num(9, 2)) >>,
      << Changed("b2", FALSE, Abs("x", "unknown")) >>,
      << Changed("b2", TRUE, Num(3, 1)) >> }

\* The modifiedBindings of a branch, in either order of its changes.
BindingMaps ==
    {x \o y : x \in B1Changes, y \in B2Changes}
       \cup {y \o x : x \in B1Changes, y \in B2Changes}

\* The orders in which all the bindings of S can have been changed.
Orders(S) ==
    {f \in [1..Cardinality(S) -> S] :
        \A i, j \in 1..Cardinality(S) : i # j => f[i] # f[j]}

\* Binding maps over every set of bindings in every order.
OrderedMaps ==
    UNION {{[i \in 1..Cardinality(S) |-> Changed(f[i], FALSE, Num(i, 1))] :
               f \in Orders(S)} : S \in SUBSET BindingNames}

\* What a branch may have done to the property p1 and to the property p2.
P1Changes ==
    { <<>>, << <<"p1", Void>> >>,
      << <<"p1", DataDesc(1, Num(5, 1), "wec")>> >>,
      << <<"p1", DataDesc(3, Num(5, 1), "e")>> >>,
      << <<"p1", AccessorDesc(5, Obj(7), "wec")>> >> }

P2Changes ==
    { <<>>, << <<"p2", Void>> >>,
      << <<"p2", DataDesc(2, Num(6, 1), "wec")>> >> }

PropertyMaps == {x \o y : x \in P1Changes, y \in P2Changes}

\* A branch: its changes and whether it emitted residual code.
Branch(mb, mp, co, residual) ==
    [bindings |-> mb, properties |-> mp, createdObjects |-> co,
     residual |-> residual]

BindingBranches ==
    {Branch(m, <<>>, {}, r) : m \in BindingMaps, r \in BOOLEAN}

OrderedBranches == {Branch(m, <<>>, {}, FALSE) : m \in OrderedMaps}

PropertyBranches ==
    {Branch(<<>>, m, co, FALSE) : m \in PropertyMaps, co \in {{}, {2}}}

\* The two branches of a fork; an object created in one branch is unknown
\* to the other.
BranchPairs ==
    (BindingBranches \X BindingBranches)
       \cup (OrderedBranches \X OrderedBranches)
       \cup {p \in PropertyBranches \X PropertyBranches :
                 \A i \in 1..2 :
                    2 \in p[i].createdObjects =>
                       /\ 2 \notin p[3 - i].createdObjects
                       /\ ~MapHas(p[3 - i].properties, "p2")}

\* The heap after the branch br has been evaluated on the heap H.
EvaluateBranch(H, br, i) ==
    evaluateForEffects(H, <<"Simple", Empty, "">>,
                       IF br.residual THEN << <<"op", i>> >> ELSE <<>>,
                       br.bindings, br.properties, br.createdObjects)

InitJoin ==
    /\ bindingObjs \in
          {[b \in BindingNames |-> <<FALSE, IF b = "b1" THEN v ELSE Num(0, 1)>>] :
              v \in {Num(0, 1), Void}}
    /\ propBindingObjs = PropertyBindingObjects
    /\ \E pair \in BranchPairs :
          \E H \in {EvaluateBranch(EvaluateBranch(EmptyHeap, pair[1], 1),
                                    pair[2], 2)} :
             /\ comps = H.comps
             /\ effs = H.effs
             /\ gens = H.gens
    /\ stack = <<1, 2>>
    /\ call = NoCall(Void, 0, 0)

\* The call record after a call on the maps of the records e1 and e2.
JoinedMaps(op, cond, e1, e2, r, err, log) ==
    [op |-> op, cond |-> cond, a1 |-> e1, a2 |-> e2, pe |-> 0, r |-> r,
     err |-> err, reported |-> Void, log |-> log, pre |-> Heap]

\* joinBindings(realm, cond, e1.generator, e1.modifiedBindings,
\*              e2.generator, e2.modifiedBindings): r is [g1, g2, bindings].
JoinBindings(cond) ==
    /\ call.op = "none"
    /\ Len(stack) = 2
    /\ \E jb \in {joinBindings(gens, cond, bindingObjs,
                                effs[Second].generator,
                                effs[Second].modifiedBindings,
                                effs[Top].generator,
                                effs[Top].modifiedBindings)} :
          /\ gens' = jb.G
          /\ call' = JoinedMaps("joinBindings", cond, Second, Top,
                                <<jb.g1, jb.g2, jb.bindings>>, jb.err, <<>>)
    /\ UNCHANGED <<comps, effs, bindingObjs, propBindingObjs, stack>>

\* joinPropertyBindings(realm, cond, e1.modifiedProperties,
\*     e2.modifiedProperties, e1.createdObjects, e2.createdObjects)
JoinPropertyBindings(cond) ==
    /\ call.op = "none"
    /\ Len(stack) = 2
    /\ \E jp \in {joinPropertyBindings(cond, propBindingObjs,
                                        effs[Second].modifiedProperties,
                                        effs[Top].modifiedProperties,
                                        effs[Second].createdObjects,
                                        effs[Top].createdObjects)} :
          call' = JoinedMaps("joinPropertyBindings", cond, Second, Top,
                             jp.properties, jp.err, <<>>)
    /\ UNCHANGED <<comps, effs, gens, bindingObjs, propBindingObjs, stack>>

\* joinMaps(e1.modifiedBindings, e2.modifiedBindings, join) with a join of
\* the caller's; log is the calls made to join.
JoinMaps ==
    /\ call.op = "none"
    /\ Len(stack) = 2
    /\ \E res \in {joinMaps(effs[Second].modifiedBindings,
                             effs[Top].modifiedBindings, ProbeJoin,
                             JoinState(gens, 0, 0))} :
          call' = JoinedMaps("joinMaps", Void, Second, Top, res.m, res.st.err,
                             res.st.log)
    /\ UNCHANGED <<comps, effs, gens, bindingObjs, propBindingObjs, stack>>

NextJoin ==
    \/ JoinBindings(Abs("c", "unknown"))
    \/ JoinPropertyBindings(Abs("c", "unknown"))
    \/ JoinMaps

SpecJoin == InitJoin /\ [][NextJoin]_vars

(***************************************************************************)
(* mapAndJoin.  A run is recorded as the sequence of its events:           *)
(*   <<"evaluateForEffects", val>>   the evaluation for val starts         *)
(*   <<"push", cond>>, <<"pop", cond>>   Path.withCondition enters, leaves *)
(*   <<"functionToMap", val>>        the continuation is called            *)
(*   <<"effects", val, e>>           the evaluation gave the record e      *)
(*   <<"joinForkOrChoose", cond, e1, e2, r>>                               *)
(*   <<"composeWithSavedCompletion", c>>, <<"applyEffects", e>>            *)
(***************************************************************************)
\* The most values in the set given to mapAndJoin.
MaxValues == 3

\* The concrete values the set may hold.
MapValues == {Num(n, 1) : n \in 1..MaxValues}

\* The sets of values, each as the sequence of its iteration order.
ValueSets ==
    UNION {{f \in [1..n -> MapValues] :
               \A i, j \in 1..n : i # j => f[i] # f[j]} : n \in 0..MaxValues}

\* What the continuation does for a value: it returns twice the value, it
\* also stores that in the binding b1, it throws it, or it fails.
Continuations == [1..MaxValues -> {"double", "store", "throw", "fatal"}]

\* The condition factories: every condition undecided; the condition of the
\* value 2 cannot be false; the condition of the value 3 is not abstract.
ConditionFactories == {"undecided", "decided", "concrete"}

\* The undecided condition "the value is n".
ConditionOf(n) == Abs(<<"c", n>>, "unknown")

joinConditionFactory(factory, val) ==
    CASE factory = "decided" /\ val[2] = 2 -> Abs(<<"c", 2>>, "true")
      [] factory = "concrete" /\ val[2] = 3 -> Bool("true")
      [] OTHER -> ConditionOf(val[2])

\* functionToMap(val): what the continuation fn ends with, as
\* <<class, value, target>>; the class "FatalError" is a thrown FatalError.
functionToMap(fn, val) ==
    CASE fn[val[2]] \in {"double", "store"} ->
             <<"Simple", Num(2 * val[2], 2), "">>
      [] fn[val[2]] = "throw" -> <<"Throw", Num(2 * val[2], 2), "">>
      [] OTHER -> <<"FatalError", Void, "">>

\* The bindings the continuation fn changes for val.
functionToMapBindings(B, fn, val) ==
    IF fn[val[2]] = "store"
    THEN << <<"b1", Entry(FALSE, Num(2 * val[2], 2),
                          IF B["b1"][1] THEN "true" ELSE "false", B["b1"][2])>> >>
    ELSE <<>>

\* Path.withCondition(condition, () => functionToMap(val)): the condition
\* is pushed, the continuation runs, and the condition is popped however
\* the continuation ends.
withCondition(condition, fn, val, log) ==
    [leaf |-> functionToMap(fn, val),
     log |-> log \o << <<"push", condition>>, <<"functionToMap", val>>,
                       <<"pop", condition>> >>]

\* The body of the loop of mapAndJoin up to the new Effects record:
\* [H, e, condition, err, log].
mapAndJoinEvaluate(H, B, factory, fn, val, log) ==
    LET condition == joinConditionFactory(factory, val)
        started == Append(log, <<"evaluateForEffects", val>>)
        body == withCondition(condition, fn, val, started)
        H1 == evaluateForEffects(H, body.leaf, <<>>,
                                 functionToMapBindings(B, fn, val), <<>>, {})
    IN  IF ~IsAbstract(condition)
        THEN [H |-> H, e |-> 0, condition |-> condition, err |-> "invariant",
              log |-> started]
        ELSE IF body.leaf[1] = "FatalError"
        THEN [H |-> H, e |-> 0, condition |-> condition, err |-> "FatalError",
              log |-> body.log]
        ELSE [H |-> H1, e |-> Len(H1.effs), condition |-> condition, err |-> "",
              log |-> Append(body.log, <<"effects", val, Len(H1.effs)>>)]

\* The fold of mapAndJoin with the accumulated record as the first side.
mapAndJoinFoldAccumulatedFirst(H, B, P, condition, effects, joinedEffects) ==
    IF joinedEffects = 0 THEN Ok(H, effects)
    ELSE joinForkOrChoose(H, B, P, condition, joinedEffects, effects)

\* joinedEffects === undefined ? effects
\*     : this.joinForkOrChoose(realm, condition, effects, joinedEffects)
mapAndJoinFold(H, B, P, condition, effects, joinedEffects) ==
    IF joinedEffects = 0 THEN Ok(H, effects)
    ELSE joinForkOrChoose(H, B, P, condition, effects, joinedEffects)

RECURSIVE mapAndJoinLoop(_, _, _, _, _, _, _, _, _)
\* for (let val of values) { ... } from the i-th value on:
\* [H, r, err, reported, log] with r the joinedEffects.
mapAndJoinLoop(H, B, P, factory, fn, values, i, joinedEffects, log) ==
    IF i > Len(values)
    THEN [H |-> H, r |-> joinedEffects, err |-> "", reported |-> Void, log |-> log]
    ELSE LET folded(ev) ==
                 IF ev.err # ""
                 THEN [H |-> ev.H, r |-> 0, err |-> ev.err, reported |-> Void,
                       log |-> ev.log]
                 ELSE LET next(jr) ==
                              LET lg == IF joinedEffects = 0 THEN ev.log
                                        ELSE Append(ev.log,
                                                    <<"joinForkOrChoose", ev.condition,
                                                      ev.e, joinedEffects, jr.r>>)
                              IN  IF jr.err # ""
                                  THEN [H |-> jr.H, r |-> 0, err |-> jr.err,
                                        reported |-> jr.reported, log |-> lg]
                                  ELSE mapAndJoinLoop(jr.H, B, P, factory, fn, values,
                                                      i + 1, jr.r, lg)
                      IN  CHOOSE out \in
                              {next(jr) : jr \in {mapAndJoinFold(ev.H, B, P, ev.condition,
                                                                 ev.e, joinedEffects)}} :
                              TRUE
         IN  CHOOSE out \in
                 {folded(ev) : ev \in {mapAndJoinEvaluate(H, B, factory, fn,
                                                          values[i], log)}} : TRUE

\* realm.applyEffects(effects) on the ambient state: every changed binding
\* and property takes what the record holds for it.
applyEffects(B, P, E) ==
    [B |-> [b \in DOMAIN B |->
               IF MapHas(E.modifiedBindings, b)
               THEN <<MapGet(E.modifiedBindings, b)[2], MapGet(E.modifiedBindings, b)[3]>>
               ELSE B[b]],
     P |-> [p \in DOMAIN P |->
               IF MapHas(E.modifiedProperties, p)
               THEN <<P[p][1], MapGet(E.modifiedProperties, p)>>
               ELSE P[p]]]

\* The outcome of mapAndJoin: the ambient state B, P after it, the value
\* returned (err = ""), the completion thrown (err = "AbruptCompletion") or
\* the error raised.
MapOutcome(H, B, P, r, err, reported, log) ==
    [H |-> H, B |-> B, P |-> P, r |-> r, err |-> err, reported |-> reported,
     log |-> log]

\* The end of mapAndJoin when the final completion is thrown before the
\* joined effects are applied.
mapAndJoinFinishThrowFirst(H, B, P, joinedEffects, log) ==
    LET completion == H.effs[joinedEffects].result
        C == H.comps[completion]
        saved == IF C.kind = "PNC"
                 THEN Append(log, <<"composeWithSavedCompletion", completion>>)
                 ELSE log
        applied == applyEffects(B, P, H.effs[joinedEffects])
        lg == Append(saved, <<"applyEffects", joinedEffects>>)
    IN  IF IsAbruptCompletion(C)
        THEN MapOutcome(H, B, P, completion, "AbruptCompletion", Void, saved)
        ELSE IF C.kind \in {"Simple", "PNC"}
        THEN MapOutcome(H, applied.B, applied.P, C.value, "", Void, lg)
        ELSE MapOutcome(H, applied.B, applied.P, 0, "invariant", Void, lg)

\* The end of mapAndJoin, after its loop: a PossiblyNormalCompletion is
\* handed to realm.composeWithSavedCompletion, which gives its value; the
\* joined effects are applied; an abrupt completion is thrown and a value
\* is returned.
mapAndJoinFinish(H, B, P, joinedEffects, log) ==
    LET completion == H.effs[joinedEffects].result
        C == H.comps[completion]
        saved == IF C.kind = "PNC"
                 THEN Append(log, <<"composeWithSavedCompletion", completion>>)
                 ELSE log
        applied == applyEffects(B, P, H.effs[joinedEffects])
        lg == Append(saved, <<"applyEffects", joinedEffects>>)
    IN  IF IsAbruptCompletion(C)
        THEN MapOutcome(H, applied.B, applied.P, completion, "AbruptCompletion",
                        Void, lg)
        ELSE IF C.kind \in {"Simple", "PNC"}
        THEN MapOutcome(H, applied.B, applied.P, C.value, "", Void, lg)
        ELSE MapOutcome(H, applied.B, applied.P, 0, "invariant", Void, lg)

\* mapAndJoin(realm, values, joinConditionFactory, functionToMap)
mapAndJoin(H, B, P, values, factory, fn) ==
    IF Len(values) <= 1 THEN MapOutcome(H, B, P, 0, "invariant", Void, <<>>)
    ELSE LET finish(lp) ==
                 IF lp.err # ""
                 THEN MapOutcome(lp.H, B, P, 0, lp.err, lp.reported, lp.log)
                 ELSE IF lp.r = 0
                 THEN MapOutcome(lp.H, B, P, 0, "invariant", Void, lp.log)
                 ELSE mapAndJoinFinish(lp.H, B, P, lp.r, lp.log)
         IN  CHOOSE out \in
                 {finish(lp) : lp \in {mapAndJoinLoop(H, B, P, factory, fn, values,
                                                      1, 0, <<>>)}} : TRUE

\* The realm before mapAndJoin is called: a1 is the set of values, a2 the
\* continuation and cond the condition factory.
InitMap ==
    /\ comps = <<>>
    /\ effs = <<>>
    /\ gens = <<>>
    /\ bindingObjs = [b \in BindingNames |-> <<FALSE, Num(0, 1)>>]
    /\ propBindingObjs = PropertyBindingObjects
    /\ stack = <<>>
    /\ \E values \in ValueSets, fn \in Continuations,
          factory \in ConditionFactories :
          call = NoCall(factory, values, fn)

\* mapAndJoin(realm, values, joinConditionFactory, functionToMap); log is
\* the events of the run.
MapAndJoin ==
    /\ call.op = "none"
    /\ \E res \in {mapAndJoin(Heap, bindingObjs, propBindingObjs, call.a1,
                              call.cond, call.a2)} :
          /\ comps' = res.H.comps
          /\ effs' = res.H.effs
          /\ gens' = res.H.gens
          /\ bindingObjs' = res.B
          /\ propBindingObjs' = res.P
          /\ call' = [call EXCEPT !.op = "mapAndJoin", !.r = res.r,
                                  !.err = res.err, !.reported = res.reported,
                                  !.log = res.log, !.pre = Heap]
    /\ UNCHANGED stack

NextMap == MapAndJoin

SpecMap == InitMap /\ [][NextMap]_vars

(***************************************************************************)
(* The evaluator composing completions: it builds forks of up to           *)
(* MaxComposeLeaves branches with joinForkOrChoose and hands them to the   *)
(* functions that compose, replace, reduce and extract them.               *)
(***************************************************************************)
\* The most branch evaluations in a run that composes completions.
MaxComposeLeaves == 5

\* The most completion objects a composing call may find on the heap.
MaxComposeComps == 12

\* The most records the evaluator holds in these runs.
MaxComposeStack == 4

\* What a branch ends with in these runs.
ComposeLeafResults ==
    { <<"Simple", Num(1, 1), "">>, <<"Throw", Num(1, 1), "">>,
      <<"Break", Empty, "L1">> }

\* The completion classes extractAndJoinCompletionsOfType is asked for.
CompletionTypes == {"Throw", "Break"}

\* A branch is evaluated; it records residual code and binding changes.
EvaluateBranchToCompose(leaf) ==
    /\ NumLeaves < MaxComposeLeaves
    /\ Len(stack) < MaxComposeStack
    /\ LET i == NumLeaves + 1
       IN  \E H4 \in {evaluateForEffects(Heap, leaf, << <<"op", i>> >>,
                                         LeafBindings(i), <<>>, {})} :
               Returned("evaluate", Void, 0, 0, 0, Ok(H4, Len(H4.effs)),
                        Append(stack, Len(H4.effs)))

\* joinForkOrChoose(realm, cond, e1, e2) on the two newest records, under
\* a condition of its own.
JoinBranchesToCompose ==
    /\ Len(stack) >= 2
    /\ Len(comps) <= MaxComposeComps
    /\ \E res \in {joinForkOrChoose(Heap, bindingObjs, propBindingObjs,
                                     ConditionOf(Len(comps)), Second, Top)} :
           Returned("joinForkOrChoose", ConditionOf(Len(comps)), Second, Top,
                    0, res, IF res.err = "" THEN Append(Rest, res.r) ELSE Rest)

\* The completion the last call returned, when it returned one.
ReturnedCompletion ==
    IF /\ call.op \in {"composePossiblyNormalCompletions",
                       "replacePossiblyNormalCompletionWithForkedAbruptCompletion"}
       /\ call.err = ""
    THEN {call.r} ELSE {}

\* realm.captureEffects on the newest fork with an open side.
CaptureEffects ==
    /\ Len(stack) >= 1
    /\ Len(comps) <= MaxComposeComps
    /\ comps[effs[Top].result].kind = "PNC"
    /\ comps[effs[Top].result].savedEffects = 0
    /\ \E H1 \in {captureEffects(Heap, effs[Top].result)} :
           Returned("captureEffects", Void, effs[Top].result, 0, 0,
                    Ok(H1, effs[Top].result), stack)

\* Effects.shallowCloneWithResult(e.result) on the newest record e: the
\* result now belongs to the clone.
CloneWithOwnResult ==
    /\ Len(stack) = 1
    /\ Len(comps) <= MaxComposeComps
    /\ \E H1 \in {shallowCloneWithResult(Heap, Top, effs[Top].result)} :
           Returned("shallowCloneWithResult", Void, Top, 0, 0,
                    Ok(H1, Len(H1.effs)), Append(stack, Len(H1.effs)))

\* composePossiblyNormalCompletions(realm, pnc, c, priorEffects): pnc is a
\* returned fork or the result of the record below the newest, c the
\* result of the newest record.
ComposePossiblyNormalCompletions(prior) ==
    /\ Len(stack) >= 1
    /\ Len(comps) <= MaxComposeComps
    /\ \E pnc \in ReturnedCompletion
                  \cup (IF Len(stack) >= 2 THEN {effs[Second].result} ELSE {}) :
          /\ comps[pnc].kind = "PNC"
          /\ comps[effs[Top].result].kind = "PNC"
          /\ LET priorEffects == IF prior THEN Top ELSE 0
             IN  \E res \in {composePossiblyNormalCompletions(
                                 Heap, pnc, effs[Top].result, priorEffects)} :
                     Returned("composePossiblyNormalCompletions", Void, pnc,
                              effs[Top].result, priorEffects, res,
                              SelectSeq(stack, LAMBDA e :
                                            effs[e].result # pnc /\ e # Top))

\* replacePossiblyNormalCompletionWithForkedAbruptCompletion(realm, pnc, ac,
\* e): e is the newest record and ac its result.
ReplacePossiblyNormalCompletionWithForkedAbruptCompletion ==
    /\ Len(stack) >= 1
    /\ Len(comps) <= MaxComposeComps
    /\ \E pnc \in ReturnedCompletion
                  \cup (IF Len(stack) >= 2 THEN {effs[Second].result} ELSE {}) :
          /\ comps[pnc].kind = "PNC"
          /\ IsAbruptCompletion(comps[effs[Top].result])
          /\ \E res \in {replacePossiblyNormalCompletionWithForkedAbruptCompletion(
                             Heap, pnc, effs[Top].result, Top)} :
                 Returned("replacePossiblyNormalCompletionWithForkedAbruptCompletion",
                          Void, pnc, effs[Top].result, Top, res,
                          SelectSeq(stack, LAMBDA e :
                                        effs[e].result # pnc /\ e # Top))

\* joinNestedEffects(realm, c, precedingEffects): c is a returned fork or
\* the result of the newest record.
JoinNestedEffects(preceding) ==
    /\ Len(stack) >= 1
    /\ Len(comps) <= MaxComposeComps
    /\ \E c \in ReturnedCompletion \cup {effs[Top].result} :
          LET precedingEffects == IF preceding THEN Top ELSE 0
          IN  \E res \in {joinNestedEffects(Heap, bindingObjs, propBindingObjs,
                                            c, precedingEffects)} :
                  Returned("joinNestedEffects", Void, c, 0, precedingEffects,
                           res,
                           IF res.err = "" /\ res.r # Top
                           THEN Append(SubSeq(stack, 1, Len(stack) - 1), res.r)
                           ELSE stack)

\* joinNestedEffects(realm, c) on a completion c that has just been made
\* and belongs to no record.
JoinNestedEffectsOfNew(leaf) ==
    /\ Len(comps) <= MaxComposeComps
    /\ Len(stack) < MaxComposeStack
    /\ \E H1 \in {NewCompletion(Heap, Completion(leaf[1], leaf[2], leaf[3]))} :
          \E res \in {joinNestedEffects(H1, bindingObjs, propBindingObjs,
                                        Len(H1.comps), 0)} :
              Returned("joinNestedEffects", Void, Len(H1.comps), 0, 0, res,
                       IF res.err = "" THEN Append(stack, res.r) ELSE stack)

\* The fork the last call extracted completions from, when that call was
\* the first extraction from it: a side's record still held residual
\* entries before the call.
ExtractedCompletion ==
    IF /\ call.op = "extractAndJoinCompletionsOfType"
       /\ call.err = ""
       /\ comps[call.a1].kind = "Forked"
       /\ \E s \in {"consequent", "alternate"} :
              ~GeneratorEmpty(call.pre.gens,
                              call.pre.effs[call.pre.comps[
                                  call.pre.comps[call.a1][s]].effects].generator)
    THEN {call.a1} ELSE {}

\* extractAndJoinCompletionsOfType(CompletionType, realm, c): c is a
\* returned fork, the result of the newest record or the fork of the last
\* extraction.
ExtractAndJoinCompletionsOfType(CompletionType) ==
    /\ Len(stack) >= 1
    /\ Len(comps) <= MaxComposeComps \/ ExtractedCompletion # {}
    /\ \E c \in IF ExtractedCompletion # {} THEN ExtractedCompletion
               ELSE ReturnedCompletion \cup {effs[Top].result} :
          /\ IsAbruptCompletion(comps[c])
          /\ \E res \in {extractAndJoinCompletionsOfType(
                             Heap, bindingObjs, propBindingObjs,
                             CompletionType, c)} :
                 Returned("extractAndJoinCompletionsOfType", Void, c,
                          CompletionType, 0, res,
                          IF res.err = "" /\ Len(stack) < 3
                          THEN Append(stack, res.r) ELSE stack)

\* The calls that build forks.
BuildingCalls == {"none", "evaluate", "joinForkOrChoose"}

\* The evaluator builds forks, then saves, composes, replaces, extracts
\* and reduces them, in that order.
NextCompose ==
    \/ /\ call.op \in BuildingCalls
       /\ \E leaf \in ComposeLeafResults : EvaluateBranchToCompose(leaf)
    \/ /\ call.op \in BuildingCalls \cup {"shallowCloneWithResult"}
       /\ JoinBranchesToCompose
    \/ /\ call.op \in BuildingCalls
       /\ CaptureEffects
    \/ /\ call.op \in BuildingCalls
       /\ CloneWithOwnResult
    \/ /\ call.op \in BuildingCalls \cup {"captureEffects"}
       /\ \E prior \in BOOLEAN : ComposePossiblyNormalCompletions(prior)
    \/ /\ call.op \in BuildingCalls \cup {"composePossiblyNormalCompletions"}
       /\ ReplacePossiblyNormalCompletionWithForkedAbruptCompletion
    \/ /\ call.op \in BuildingCalls
                      \cup {"replacePossiblyNormalCompletionWithForkedAbruptCompletion"}
                      \cup {op \in {"extractAndJoinCompletionsOfType"} :
                               ExtractedCompletion # {}}
       /\ \E CompletionType \in CompletionTypes :
              ExtractAndJoinCompletionsOfType(CompletionType)
    \/ /\ call.op \in BuildingCalls
                      \cup {"composePossiblyNormalCompletions",
                            "replacePossiblyNormalCompletionWithForkedAbruptCompletion",
                            "extractAndJoinCompletionsOfType"}
       /\ \E preceding \in BOOLEAN : JoinNestedEffects(preceding)
    \/ /\ call.op \in BuildingCalls
       /\ \E leaf \in ComposeLeafResults : JoinNestedEffectsOfNew(leaf)

SpecCompose == Init /\ [][NextCompose]_vars

(***************************************************************************)
(* The evaluator resuming the open paths of a fork: it builds forks and    *)
(* calls the update operations and composePossiblyNormalCompletions on     *)
(* them, in any order.                                                     *)
(***************************************************************************)
\* The most branch evaluations in a run that updates forks.
MaxUpdateLeaves == 4

\* The most completion objects a call of these runs may find on the heap.
MaxUpdateComps == 11

\* The most records the evaluator holds in these runs.
MaxUpdateStack == 3

\* The values updatePossiblyNormalCompletionWithValue is given.
UpdateValues == {Num(2, 1), Abs("x", "unknown")}

\* updatePossiblyNormalCompletionWithSubsequentEffects(realm, pnc, e): pnc
\* is the result of the record below the newest, e the newest record.
UpdatePossiblyNormalCompletionWithSubsequentEffects ==
    /\ Len(stack) >= 2
    /\ Len(comps) <= MaxComposeComps
    /\ comps[effs[Second].result].kind = "PNC"
    /\ \E res \in {updatePossiblyNormalCompletionWithSubsequentEffects(
                       Heap, effs[Second].result, Top)} :
           Returned("updatePossiblyNormalCompletionWithSubsequentEffects",
                    Void, effs[Second].result, 0, Top, res,
                    SubSeq(stack, 1, Len(stack) - 1))

\* updatePossiblyNormalCompletionWithValue(realm, pnc, v): pnc is the
\* result of the newest record.
UpdatePossiblyNormalCompletionWithValue(v) ==
    /\ Len(stack) >= 1
    /\ comps[effs[Top].result].kind = "PNC"
    /\ \E res \in {updatePossiblyNormalCompletionWithValue(
                       Heap, effs[Top].result, v)} :
           Returned("updatePossiblyNormalCompletionWithValue", Void,
                    effs[Top].result, v, 0, res, stack)

\* The evaluator works within the bounds of these runs.
WithinUpdateBounds ==
    /\ NumLeaves <= MaxUpdateLeaves
    /\ Len(comps) <= MaxUpdateComps
    /\ Len(stack) <= MaxUpdateStack

NextUpdate ==
    \/ /\ NumLeaves < MaxUpdateLeaves
       /\ Len(stack) < MaxUpdateStack
       /\ \E leaf \in ComposeLeafResults : EvaluateBranchToCompose(leaf)
    \/ /\ WithinUpdateBounds
       /\ JoinBranchesToCompose
    \/ /\ WithinUpdateBounds
       /\ UpdatePossiblyNormalCompletionWithSubsequentEffects
    \/ /\ WithinUpdateBounds
       /\ \E v \in UpdateValues : UpdatePossiblyNormalCompletionWithValue(v)
    \/ /\ WithinUpdateBounds
       /\ \E prior \in BOOLEAN : ComposePossiblyNormalCompletions(prior)

SpecUpdate == Init /\ [][NextUpdate]_vars

(***************************************************************************)
(* Properties of joinForkOrChoose                                          *)
(***************************************************************************)
\* The last call was joinForkOrChoose under a condition that is not decided.
JoinedUndecided ==
    /\ call.op = "joinForkOrChoose"
    /\ mightNotBeTrue(call.cond)
    /\ mightNotBeFalse(call.cond)

\* The results of the two records given to the last call, and whether they
\* were abrupt.
PreResult1 == call.pre.effs[call.a1].result

PreResult2 == call.pre.effs[call.a2].result

PreAbrupt1 == IsAbruptCompletion(call.pre.comps[PreResult1])

PreAbrupt2 == IsAbruptCompletion(call.pre.comps[PreResult2])

\* The abrupt and the other side of a call with exactly one abrupt result.
AbruptSide == IF PreAbrupt1 THEN call.a1 ELSE call.a2

NormalSide == IF PreAbrupt1 THEN call.a2 ELSE call.a1

\* C1: under a condition that cannot be false joinForkOrChoose returns the
\* record e1 itself, under one that can be false but cannot be true the
\* record e2 itself; in both cases no object is changed and none is created.
C1_ShortCircuit ==
    call.op = "joinForkOrChoose" =>
        /\ ~mightNotBeTrue(call.cond) =>
              call.err = "" /\ call.r = call.a1 /\ Heap = call.pre
        /\ (mightNotBeTrue(call.cond) /\ ~mightNotBeFalse(call.cond)) =>
              call.err = "" /\ call.r = call.a2 /\ Heap = call.pre

\* A join of two different records under a condition that cannot be true.
C1_Witness ==
    /\ call.op = "joinForkOrChoose"
    /\ ~mightNotBeFalse(call.cond)
    /\ call.r = call.a2
    /\ call.a1 # call.a2
    /\ effs[call.a1].modifiedBindings # effs[call.a2].modifiedBindings

\* C2 as stated: with exactly one abrupt result the returned Effects has a
\* PossiblyNormalCompletion as result and the abrupt side's record has had
\* its generator replaced by an empty one, its other fields being unchanged.
C2_AbruptSideEmptied ==
    (JoinedUndecided /\ PreAbrupt1 # PreAbrupt2 /\ call.err = "") =>
        /\ comps[effs[call.r].result].kind = "PNC"
        /\ effs[AbruptSide].generator # call.pre.effs[AbruptSide].generator
        /\ GeneratorEmpty(gens, effs[AbruptSide].generator)
        /\ effs[AbruptSide] = [call.pre.effs[AbruptSide] EXCEPT
                                  !.generator = effs[AbruptSide].generator]

\* C2, amended: with exactly one abrupt result the returned Effects has a
\* PossiblyNormalCompletion as result, linked back to it, whose sides are the
\* two given results; it is the record of the side that is NOT abrupt whose
\* generator is replaced by a new empty generator, the returned Effects
\* taking over that side's generator, bindings, properties and created
\* objects; the abrupt side's record keeps all its fields, its generator
\* included, and stays reachable from the returned completion.
C2_NormalSideEmptied ==
    (JoinedUndecided /\ PreAbrupt1 # PreAbrupt2) =>
        LET old == call.pre.effs[NormalSide]
            R == effs[call.r]
            result == comps[R.result]
        IN  /\ call.err = ""
            /\ call.r > Len(call.pre.effs)
            /\ result.kind = "PNC"
            /\ result.effects = call.r
            /\ result.consequent = PreResult1
            /\ result.alternate = PreResult2
            /\ comps[PreResult1].effects = call.a1
            /\ comps[PreResult2].effects = call.a2
            /\ effs[NormalSide].generator > Len(call.pre.gens)
            /\ GeneratorEmpty(gens, effs[NormalSide].generator)
            /\ effs[NormalSide] = [old EXCEPT !.generator = effs[NormalSide].generator]
            /\ R = [old EXCEPT !.result = R.result]
            /\ gens[old.generator] = call.pre.gens[old.generator]
            /\ effs[AbruptSide] = call.pre.effs[AbruptSide]
            /\ gens[effs[AbruptSide].generator]
                  = call.pre.gens[effs[AbruptSide].generator]

\* A join of an abrupt branch with a normal one, both with residual code.
C2_Witness ==
    /\ JoinedUndecided
    /\ PreAbrupt1 # PreAbrupt2
    /\ call.err = ""
    /\ ~GeneratorEmpty(gens, effs[AbruptSide].generator)
    /\ ~GeneratorEmpty(gens, effs[call.r].generator)
    /\ effs[AbruptSide].modifiedBindings # <<>>

\* C3: with no abrupt result the returned Effects has the union of the two
\* sets of created objects, the joinBindings of the two binding maps, the
\* joinPropertyBindings of the two property maps, and a generator that is
\* empty exactly when both branch generators (as rewritten for leaks) are
\* empty and otherwise holds the one entry "generator1 under the condition,
\* else generator2".
C3_BothNormalJoined ==
    (JoinedUndecided /\ ~PreAbrupt1 /\ ~PreAbrupt2) =>
        LET E1 == call.pre.effs[call.a1]
            E2 == call.pre.effs[call.a2]
            R == effs[call.r]
            jb == joinBindings(call.pre.gens, call.cond, bindingObjs,
                               E1.generator, E1.modifiedBindings,
                               E2.generator, E2.modifiedBindings)
            jp == joinPropertyBindings(call.cond, propBindingObjs,
                                       E1.modifiedProperties, E2.modifiedProperties,
                                       E1.createdObjects, E2.createdObjects)
            bothEmpty == /\ jb.G[jb.g1].entries = <<>>
                         /\ jb.G[jb.g2].entries = <<>>
            entries == gens[R.generator].entries
        IN  /\ call.err = ""
            /\ call.r > Len(call.pre.effs)
            /\ R.createdObjects = E1.createdObjects \cup E2.createdObjects
            /\ R.modifiedBindings = jb.bindings
            /\ R.modifiedProperties = jp.properties
            /\ R.generator > Len(call.pre.gens)
            /\ (entries = <<>>) <=> bothEmpty
            /\ ~bothEmpty =>
                  /\ Len(entries) = 1
                  /\ entries[1][1] = "join"
                  /\ entries[1][2] = call.cond
                  /\ gens[entries[1][3]].entries = jb.G[jb.g1].entries
                  /\ gens[entries[1][4]].entries = jb.G[jb.g2].entries
                  /\ (jb.g1 = E1.generator) <=> (entries[1][3] = E1.generator)
                  /\ (jb.g2 = E2.generator) <=> (entries[1][4] = E2.generator)

\* A join of two normal branches that both changed bindings and created
\* objects, one of them leaking a binding.
C3_Witness ==
    /\ JoinedUndecided
    /\ ~PreAbrupt1
    /\ ~PreAbrupt2
    /\ call.err = ""
    /\ Cardinality(effs[call.r].createdObjects) = 2
    /\ Len(effs[call.r].modifiedBindings) = 2
    /\ Len(gens[effs[call.r].generator].entries) = 1
    /\ gens[effs[call.r].generator].entries[1][4] # call.pre.effs[call.a2].generator

(***************************************************************************)
(* Properties of joinOrForkResults and collapseResults                     *)
(***************************************************************************)
\* The two results given to the last call, as they were before it.
PreR1 == call.pre.comps[PreResult1]

PreR2 == call.pre.comps[PreResult2]

\* C4: joinOrForkResults on back-linked inputs gives, for two simple normal
\* completions, a new simple normal completion with the joinValues of the
\* two values; for two abrupt completions, without error and without
\* touching their values, a ForkedAbruptCompletion with consequent r1 and
\* alternate r2; for one abrupt and one normal completion a
\* PossiblyNormalCompletion with consequent r1, alternate r2, the value of
\* the normal side and that side's saved effects and path conditions when
\* it is a PossiblyNormalCompletion (none and empty otherwise).
C4_Dispatch ==
    call.op = "joinOrForkResults" =>
        LET N == IF PreAbrupt1 THEN PreR2 ELSE PreR1
            C == comps[call.r]
        IN  /\ (PreR1.kind = "Simple" /\ PreR2.kind = "Simple") =>
                  /\ call.err = ""
                  /\ call.r > Len(call.pre.comps)
                  /\ C.kind = "Simple"
                  /\ C.value = joinValues(PreR1.value, PreR2.value,
                                          PlainGav(call.cond))
            /\ (PreAbrupt1 /\ PreAbrupt2) =>
                  /\ call.err = ""
                  /\ call.r > Len(call.pre.comps)
                  /\ C.kind = "Forked"
                  /\ C.consequent = PreResult1
                  /\ C.alternate = PreResult2
                  /\ comps[PreResult1] = PreR1
                  /\ comps[PreResult2] = PreR2
            /\ (PreAbrupt1 # PreAbrupt2) =>
                  /\ call.err = ""
                  /\ call.r > Len(call.pre.comps)
                  /\ C.kind = "PNC"
                  /\ C.consequent = PreResult1
                  /\ C.alternate = PreResult2
                  /\ C.value = N.value
                  /\ C.savedEffects = (IF N.kind = "PNC" THEN N.savedEffects ELSE 0)
                  /\ C.savedPathConditions =
                        (IF N.kind = "PNC" THEN N.savedPathConditions ELSE <<>>)

\* The last call was collapseResults on a pair of abrupt completions of one
\* class (and one target, for breaks and continues).
CollapsedSameKind ==
    /\ call.op = "collapseResults"
    /\ \/ PreR1.kind = "Throw" /\ PreR2.kind = "Throw"
       \/ PreR1.kind = "Return" /\ PreR2.kind = "Return"
       \/ PreR1.kind = "Break" /\ PreR2.kind = "Break"
             /\ PreR1.target = PreR2.target
       \/ PreR1.kind = "Continue" /\ PreR2.kind = "Continue"
             /\ PreR1.target = PreR2.target

\* The completion the last call returned is new, of the class of the pair,
\* and attached to precedingEffects: it is the result of an Effects record
\* with the generator, bindings, properties and created objects of
\* precedingEffects.
CollapsedOntoPreceding ==
    LET C == comps[call.r]
        PE == call.pre.effs[call.pe]
    IN  /\ call.err = ""
        /\ call.r > Len(call.pre.comps)
        /\ C.kind = PreR1.kind
        /\ C.effects # 0
        /\ effs[C.effects] = [PE EXCEPT !.result = call.r]
        /\ PreR1.kind \in {"Break", "Continue"} => C.target = PreR1.target
        /\ PreR1.kind \in {"Break", "Return"} =>
              C.value = joinValues(PreR1.value, PreR2.value,
                                   EmptyAwareGav(call.cond))

\* C5 as stated: a same-kind pair collapses into one completion of that
\* kind attached to precedingEffects, and two throws of a and b give a throw
\* of the conditional abstract value "cond ? a : b".
C5_ThrowAlwaysConditional ==
    CollapsedSameKind =>
        /\ CollapsedOntoPreceding
        /\ PreR1.kind = "Throw" =>
              comps[call.r].value
                 = createFromConditionalOp(call.cond, PreR1.value, PreR2.value)

\* C5, amended: a same-kind pair collapses into one completion of that kind
\* attached to precedingEffects; two throws of a and b give a throw of
\* joinValues(a, b): the value a itself when a and b are concrete and
\* strictly equal, and the conditional abstract value "cond ? a : b"
\* otherwise; returns and breaks carry the joined value, breaks and
\* continues keep the common target.
C5_ThrowJoined ==
    CollapsedSameKind =>
        /\ CollapsedOntoPreceding
        /\ PreR1.kind = "Throw" =>
              comps[call.r].value
                 = IF /\ ~IsAbstract(PreR1.value)
                      /\ ~IsAbstract(PreR2.value)
                      /\ StrictEqualityComparison(PreR1.value, PreR2.value)
                   THEN PreR1.value
                   ELSE createFromConditionalOp(call.cond, PreR1.value,
                                                PreR2.value)

\* Two branches that throw different values are collapsed onto a record
\* with residual code.
C5_Witness ==
    /\ CollapsedSameKind
    /\ call.err = ""
    /\ PreR1.kind = "Throw"
    /\ PreR1.value # PreR2.value
    /\ comps[call.r].value[1] = "cond"
    /\ ~GeneratorEmpty(gens, effs[comps[call.r].effects].generator)

\* C6: collapseResults on a pair that is not a matching same-kind pair
\* returns no completion: it reports an introspection error on the join
\* condition and raises the fatal error, and it creates and changes nothing.
C6_MismatchIsFatal ==
    (/\ call.op = "collapseResults"
     /\ ~CollapsedSameKind
     /\ ~(PreR1.kind = "Simple" /\ PreR2.kind = "Simple")) =>
        /\ call.err = "FatalError"
        /\ call.reported = call.cond
        /\ call.r = 0
        /\ Heap = call.pre

\* Two breaks with different targets have been given to collapseResults.
C6_Witness ==
    /\ call.op = "collapseResults"
    /\ call.err = "FatalError"
    /\ PreR1.kind = "Break"
    /\ PreR2.kind = "Break"
    /\ PreR1.target # PreR2.target

(***************************************************************************)
(* Properties of joinBindings, joinPropertyBindings, joinValues, joinMaps  *)
(***************************************************************************)
\* The maps and created objects of the two records given to the last call.
Bindings1 == effs[call.a1].modifiedBindings

Bindings2 == effs[call.a2].modifiedBindings

Properties1 == effs[call.a1].modifiedProperties

Properties2 == effs[call.a2].modifiedProperties

Created1 == effs[call.a1].createdObjects

Created2 == effs[call.a2].createdObjects

\* hasLeaked and the last value of the binding b on the side whose map is m:
\* those of its entry, or the Binding object's own when m has no entry.
LeakedIn(m, b) == IF MapHas(m, b) THEN MapGet(m, b)[2] ELSE bindingObjs[b][1]

LastValueIn(m, b) == IF MapHas(m, b) THEN MapGet(m, b)[3] ELSE bindingObjs[b][2]

\* b has leaked on the side of other and not on the side of m.
LeakedOnlyIn(other, m, b) == LeakedIn(other, b) /\ ~LeakedIn(m, b)

\* The generator g holds an assignment of v to the binding b.
HasAssignment(g, b, v) ==
    \E j \in 1..Len(gens[g].entries) : gens[g].entries[j] = <<"assign", b, v>>

\* The assignments due in the generator of the side of m: for each joined
\* binding, in order, that leaked only on the other side and has a value
\* on this side, the assignment of this side's value.
AssignmentsDue(keys, m, other) ==
    LET due(b) == /\ LeakedOnlyIn(other, m, b)
                  /\ LastValueIn(m, b) \notin {Void, Undefined}
        bs == SelectSeq(keys, due)
    IN  [i \in 1..Len(bs) |-> <<"assign", bs[i], LastValueIn(m, bs[i])>>]

\* The generator rg returned for the side of m, whose generator was g: when
\* some binding leaked only on the other side, a new generator that wraps g
\* and ends with the assignments due; g itself otherwise.
ReturnedGenerator(rg, g, keys, m, other) ==
    IF \E i \in 1..Len(keys) : LeakedOnlyIn(other, m, keys[i])
    THEN /\ rg > Len(call.pre.gens)
         /\ gens[rg].name = "RewrittenToAppendBindingAssignments"
         /\ gens[rg].entries
               = call.pre.gens[g].entries \o AssignmentsDue(keys, m, other)
    ELSE rg = g

\* C7 as stated: a binding whose entry has leaked only in branch A, with
\* last value x there, and has not leaked in branch B is joined into an
\* entry with hasLeaked true and value undefined, and the generator returned
\* for B holds an assignment of x to the binding.
C7_AssignsLeakedValue ==
    (call.op = "joinBindings" /\ call.err = "") =>
        \A i \in 1..Len(call.r[3]) :
            LET b == call.r[3][i][1]
                e == call.r[3][i][2]
            IN  /\ (MapHas(Bindings1, b) /\ LeakedOnlyIn(Bindings1, Bindings2, b)) =>
                      /\ e[2] = TRUE
                      /\ e[3] = Void
                      /\ HasAssignment(call.r[2], b, LastValueIn(Bindings1, b))
                /\ (MapHas(Bindings2, b) /\ LeakedOnlyIn(Bindings2, Bindings1, b)) =>
                      /\ e[2] = TRUE
                      /\ e[3] = Void
                      /\ HasAssignment(call.r[1], b, LastValueIn(Bindings2, b))

\* C7, amended: a binding that has leaked in branch A only is joined into an
\* entry with hasLeaked true and value undefined, and the generator returned
\* for B is a new generator that wraps B's generator and then assigns to the
\* binding the last value it has in B (not the value x it has in A), with no
\* assignment at all when that value is undefined; the given generators are
\* not changed.
C7_AssignsOwnValue ==
    call.op = "joinBindings" =>
        LET keys == MapKeys(call.r[3])
        IN  /\ call.err = ""
            /\ ReturnedGenerator(call.r[1], effs[call.a1].generator, keys,
                                 Bindings1, Bindings2)
            /\ ReturnedGenerator(call.r[2], effs[call.a2].generator, keys,
                                 Bindings2, Bindings1)
            /\ \A g \in 1..Len(call.pre.gens) : gens[g] = call.pre.gens[g]
            /\ \A i \in 1..Len(keys) :
                  LeakedIn(Bindings1, keys[i]) # LeakedIn(Bindings2, keys[i]) =>
                     /\ call.r[3][i][2][2] = TRUE
                     /\ call.r[3][i][2][3] = Void

\* The binding b1 leaked with value 7 in the first branch only; the second
\* branch, which emitted residual code, last gave it the value 8.
C7_Witness ==
    /\ call.op = "joinBindings"
    /\ call.err = ""
    /\ MapHas(Bindings1, "b1")
    /\ LeakedOnlyIn(Bindings1, Bindings2, "b1")
    /\ LastValueIn(Bindings1, "b1") = Num(7, 1)
    /\ LastValueIn(Bindings2, "b1") = Num(8, 1)
    /\ Len(gens[call.r[2]].entries) = 2
    /\ gens[call.r[2]].entries[2] = <<"assign", "b1", Num(8, 1)>>

\* The descriptor res has the two sides v1 and v2: it is a data descriptor
\* whose value is the conditional value of v1 and v2, or a conditional
\* descriptor of two descriptors with these values.
HasBothSides(res, v1, v2) ==
    \/ /\ res[1] = "data"
       /\ res[3] = createFromConditionalOp(call.cond, v1, v2)
    \/ /\ res[1] = "joined"
       /\ res[3] # Void
       /\ res[3][3] = v1
       /\ res[4] # Void
       /\ res[4][3] = v2

\* The descriptor that stands for the side of m, on which the slot b has no
\* recorded descriptor: the descriptor from before the fork, with the empty
\* value when b is a key of m and that descriptor exists.
MissingSide(m, b) ==
    LET descriptor == propBindingObjs[b][2]
    IN  IF descriptor # Void /\ MapHas(m, b)
        THEN WithValue(cloneDescriptor(descriptor), Empty)
        ELSE descriptor

\* C8: for a slot with a recorded descriptor on one side only,
\* joinPropertyBindings (a) gives the other side's descriptor itself when
\* the owning object is in the other side's createdObjects, and otherwise
\* joins that descriptor with (b) a clone of the descriptor from before the
\* fork with the empty value, when the slot is a key of this side's map and
\* that descriptor exists, or (c) the descriptor from before the fork as it
\* is.  A written value joined with a deletion gives a descriptor that has
\* both sides, the value and empty, and no call fails.
C8_MissingSideDescriptor ==
    call.op = "joinPropertyBindings" =>
        /\ call.err = ""
        /\ \A i \in 1..Len(call.r) :
              LET b == call.r[i][1]
                  res == call.r[i][2]
                  object == propBindingObjs[b][1]
                  d1 == MapGet(Properties1, b)
                  d2 == MapGet(Properties2, b)
              IN  /\ (d1 = Void /\ d2 # Void) =>
                        res = IF object \in Created2 THEN d2
                              ELSE joinDescriptors(call.cond,
                                                   MissingSide(Properties1, b), d2)
                  /\ (d1 # Void /\ d2 = Void) =>
                        res = IF object \in Created1 THEN d1
                              ELSE joinDescriptors(call.cond, d1,
                                                   MissingSide(Properties2, b))
                  /\ (/\ d1 = Void
                      /\ MapHas(Properties1, b)
                      /\ d2 # Void
                      /\ d2[1] = "data"
                      /\ object \notin Created2) =>
                        HasBothSides(res, Empty, d2[3])
                  /\ (/\ d2 = Void
                      /\ MapHas(Properties2, b)
                      /\ d1 # Void
                      /\ d1[1] = "data"
                      /\ object \notin Created1) =>
                        HasBothSides(res, d1[3], Empty)

\* The first branch wrote 5 to p1 and the second deleted it, and the second
\* branch created the object of p2 and gave it a descriptor.
C8_Witness ==
    /\ call.op = "joinPropertyBindings"
    /\ call.err = ""
    /\ MapGet(Properties1, "p1") = DataDesc(1, Num(5, 1), "wec")
    /\ MapHas(Properties2, "p1")
    /\ MapGet(Properties2, "p1") = Void
    /\ ~MapHas(Properties1, "p2")
    /\ 2 \in Created2
    /\ MapGet(call.r, "p1")[3]
          = createFromConditionalOp(call.cond, Num(5, 1), Empty)
    /\ MapGet(call.r, "p2") = MapGet(Properties2, "p2")
    /\ MapGet(call.r, "p2") # Void

\* The last call was joinValues(v, v, f) on one concrete value v.
JoinedValueWithItself ==
    /\ call.op = "joinValues"
    /\ call.a1 = call.a2
    /\ call.a1 \in ConcreteValues

\* C9 as stated: joinValues(v, v, f) returns v itself and does not call f,
\* for every concrete value v.
C9_SameValueKept ==
    JoinedValueWithItself =>
        /\ call.err = ""
        /\ call.r = call.a1
        /\ call.log = <<>>

\* C9, amended: joinValues(v, v, f) returns v itself and does not call f,
\* for every concrete value v that is strictly equal to itself, that is for
\* every concrete value but NaN; for NaN it calls f(v, v) and returns what
\* f gives.
C9_SameValueKeptUnlessNaN ==
    JoinedValueWithItself =>
        /\ call.err = ""
        /\ call.a1[1] # "nan" => call.r = call.a1 /\ call.log = <<>>
        /\ call.a1[1] = "nan" =>
              /\ call.log = << <<call.a1, call.a1>> >>
              /\ call.r = getAbstractValue(call.cond, call.a1, call.a1)

\* joinValues has been given the same number object twice.
C9_Witness ==
    /\ JoinedValueWithItself
    /\ call.a1 = Num(1, 2)
    /\ call.r = Num(1, 2)

\* The elements of a sequence.
Range(seq) == {seq[i] : i \in 1..Len(seq)}

\* C10: joinMaps(m1, m2, join) gives a map whose keys are those of m1 in
\* m1's order followed by the keys of m2 that m1 lacks in m2's order, so the
\* union of the two key sets; join is called once for each key, with the
\* key, m1's value or undefined and m2's value or undefined, and its result
\* is the key's value; joinMaps(m2, m1, join) has the same key set; m1 and
\* m2 are not changed.
C10_JoinMapsUnion ==
    call.op = "joinMaps" =>
        LET m1 == Bindings1
            m2 == Bindings2
            m3 == call.r
            lacking(k) == ~MapHas(m1, k)
            swapped == joinMaps(m2, m1, ProbeJoin, JoinState(<<>>, 0, 0)).m
        IN  /\ call.err = ""
            /\ MapKeys(m3) = MapKeys(m1) \o SelectSeq(MapKeys(m2), lacking)
            /\ Range(MapKeys(m3)) = Range(MapKeys(m1)) \cup Range(MapKeys(m2))
            /\ Cardinality(Range(MapKeys(m3))) = Len(m3)
            /\ call.log = [i \in 1..Len(m3) |->
                              <<m3[i][1], MapGet(m1, m3[i][1]), MapGet(m2, m3[i][1])>>]
            /\ \A i \in 1..Len(m3) : m3[i][2] = <<"joined">> \o call.log[i]
            /\ Range(MapKeys(swapped)) = Range(MapKeys(m3))
            /\ Heap = call.pre

\* The maps [b3] and [b2, b3, b1] have been joined into [b3, b2, b1].
C10_Witness ==
    /\ call.op = "joinMaps"
    /\ MapKeys(Bindings1) = <<"b3">>
    /\ MapKeys(Bindings2) = <<"b2", "b3", "b1">>
    /\ MapKeys(call.r) = <<"b3", "b2", "b1">>
    /\ Len(call.log) = 3

(***************************************************************************)
(* Properties of mapAndJoin                                                *)
(***************************************************************************)
RECURSIVE ValueWhen(_, _)
\* What the value v is when holding is the one condition that holds.
ValueWhen(v, holding) ==
    IF v[1] = "cond"
    THEN IF v[2] = holding THEN ValueWhen(v[3], holding)
         ELSE ValueWhen(v[4], holding)
    ELSE v

IsFunctionToMap(ev) == ev[1] = "functionToMap"

IsEffects(ev) == ev[1] = "effects"

IsJoin(ev) == ev[1] = "joinForkOrChoose"

IsApply(ev) == ev[1] = "applyEffects"

\* The events of the last run of mapAndJoin, by kind.
MapCalls == SelectSeq(call.log, IsFunctionToMap)

MapEffects == SelectSeq(call.log, IsEffects)

MapJoins == SelectSeq(call.log, IsJoin)

MapApplies == SelectSeq(call.log, IsApply)

\* The record accumulated once the first i values have been processed.
Accumulated(i) == IF i = 1 THEN MapEffects[1][3] ELSE MapJoins[i - 1][5]

\* The last run was mapAndJoin over the values 1, 2 and 3, in some order,
\* with x => x*2 and conditions that are all undecided.
DoubledOneTwoThree ==
    /\ call.op = "mapAndJoin"
    /\ {call.a1[i] : i \in 1..Len(call.a1)} = {Num(1, 1), Num(2, 1), Num(3, 1)}
    /\ \A n \in 1..3 : call.a2[n] = "double"
    /\ call.cond = "undecided"

\* C11: mapAndJoin over {1, 2, 3} with x => x*2 and mutually exclusive
\* conditions returns a value that is 2 when only c1 holds, 4 when only c2
\* holds and 6 when only c3 holds; the one record applied to the ambient
\* state is the record joined from the three branch evaluations, and the
\* bindings and properties of the ambient state hold what they held.
C11_DoublesPerCondition ==
    DoubledOneTwoThree =>
        /\ call.err = ""
        /\ \A i \in 1..3 :
              LET val == call.a1[i]
                  v == ValueWhen(call.r, joinConditionFactory(call.cond, val))
              IN  v[1] = "num" /\ v[2] = 2 * val[2]
        /\ Len(MapEffects) = 3
        /\ Len(MapJoins) = 2
        /\ MapJoins[1][3] = MapEffects[2][3]
        /\ MapJoins[1][4] = MapEffects[1][3]
        /\ MapJoins[2][3] = MapEffects[3][3]
        /\ MapJoins[2][4] = MapJoins[1][5]
        /\ MapApplies = << <<"applyEffects", MapJoins[2][5]>> >>
        /\ effs[MapJoins[2][5]].modifiedBindings = <<>>
        /\ effs[MapJoins[2][5]].modifiedProperties = <<>>
        /\ effs[MapJoins[2][5]].createdObjects = {}
        /\ bindingObjs = [b \in BindingNames |-> <<FALSE, Num(0, 1)>>]
        /\ propBindingObjs = PropertyBindingObjects

\* The values 1, 2, 3 in this order gave the value c3 ? 6 : (c2 ? 4 : 2).
C11_Witness ==
    /\ DoubledOneTwoThree
    /\ call.a1 = <<Num(1, 1), Num(2, 1), Num(3, 1)>>
    /\ call.r = createFromConditionalOp(
                    ConditionOf(3), Num(6, 2),
                    createFromConditionalOp(ConditionOf(2), Num(4, 2), Num(2, 2)))
    /\ Len(MapApplies) = 1

\* The events of the i-th value of the last run when its evaluation gave
\* an Effects record: the evaluation, with the continuation called once
\* between the push and the pop of the value's condition, and then, from
\* the second value on, the fold of the new record (first) with the
\* accumulated one (second).
ValueEvents(i) ==
    LET val == call.a1[i]
        condition == joinConditionFactory(call.cond, val)
        e == MapEffects[i][3]
    IN  << <<"evaluateForEffects", val>>, <<"push", condition>>,
           <<"functionToMap", val>>, <<"pop", condition>>, <<"effects", val, e>> >>
           \o (IF i = 1 THEN <<>>
               ELSE << <<"joinForkOrChoose", condition, e, Accumulated(i - 1),
                         MapJoins[i - 1][5]>> >>)

RECURSIVE ValuesEvents(_)
\* The events of the first i values.
ValuesEvents(i) == IF i = 0 THEN <<>> ELSE ValuesEvents(i - 1) \o ValueEvents(i)

\* The events of the value whose evaluation raised an error: a condition
\* that is not abstract fails an assertion before anything is pushed; a
\* continuation that fails does so between the push and the pop.
FailedEvents(i) ==
    LET val == call.a1[i]
        condition == joinConditionFactory(call.cond, val)
    IN  IF ~IsAbstract(condition) THEN << <<"evaluateForEffects", val>> >>
        ELSE << <<"evaluateForEffects", val>>, <<"push", condition>>,
                <<"functionToMap", val>>, <<"pop", condition>> >>

\* The last run ended by returning a value or throwing a completion.
MapCompleted == call.err \in {"", "AbruptCompletion"}

\* C12: mapAndJoin on fewer than two values fails an assertion before any
\* event.  Otherwise the values are processed in iteration order, each
\* evaluation finished before the next starts, the continuation called
\* once per value between the push and the pop of the value's condition,
\* also when it fails, and each new record folded with the accumulated one
\* by joinForkOrChoose with the new record first.  A run without error
\* processes every value and then calls applyEffects once, on the last
\* joined record, as its last event before it returns the value or throws
\* the abrupt completion; a run that raises an error stops at that value
\* and never calls applyEffects.
C12_EventOrder ==
    call.op = "mapAndJoin" =>
        LET n == Len(call.a1)
            m == Len(MapEffects)
            final == Accumulated(n)
            result == effs[final].result
        IN  /\ n <= 1 => /\ call.err = "invariant"
                         /\ call.log = <<>>
                         /\ Heap = call.pre
            /\ n > 1 =>
                  /\ call.err \in {"", "AbruptCompletion", "invariant", "FatalError"}
                  /\ Len(MapJoins) = (IF m = 0 THEN 0 ELSE m - 1)
                  /\ MapCompleted =>
                        /\ m = n
                        /\ call.log
                              = ValuesEvents(n)
                                   \o (IF comps[result].kind = "PNC"
                                       THEN << <<"composeWithSavedCompletion", result>> >>
                                       ELSE <<>>)
                                   \o << <<"applyEffects", final>> >>
                        /\ call.err = "" => call.r = comps[result].value
                        /\ call.err = "AbruptCompletion" =>
                              /\ call.r = result
                              /\ IsAbruptCompletion(comps[result])
                  /\ ~MapCompleted =>
                        /\ m < n
                        /\ call.log = ValuesEvents(m) \o FailedEvents(m + 1)
                        /\ MapApplies = <<>>
                        /\ bindingObjs = [b \in BindingNames |-> <<FALSE, Num(0, 1)>>]
                        /\ propBindingObjs = PropertyBindingObjects

\* The continuation threw for the value 1, returned for 2 and failed for 3:
\* the first two records were folded, the condition of 3 was popped and no
\* effects were applied.
C12_Witness ==
    /\ call.op = "mapAndJoin"
    /\ call.a1 = <<Num(1, 1), Num(2, 1), Num(3, 1)>>
    /\ call.cond = "undecided"
    /\ call.a2[1] = "throw"
    /\ call.a2[2] = "double"
    /\ call.a2[3] = "fatal"
    /\ call.err = "FatalError"
    /\ Len(MapJoins) = 1
    /\ comps[effs[MapJoins[1][5]].result].kind = "PNC"
    /\ call.log[Len(call.log)] = <<"pop", ConditionOf(3)>>
    /\ MapApplies = <<>>

(***************************************************************************)
(* Properties of joins given a Reference                                   *)
(***************************************************************************)
\* The last call was joinOrForkResults, or joinForkOrChoose under a
\* condition that is not decided, and one of the two results given to it
\* was a Reference.
JoinedReference ==
    /\ \/ call.op = "joinOrForkResults"
       \/ JoinedUndecided
    /\ \/ call.pre.comps[PreResult1].kind = "Reference"
       \/ call.pre.comps[PreResult2].kind = "Reference"

BackLinked(H) ==
    \A e \in 1..Len(H.effs) : H.comps[H.effs[e].result].effects = e

\* The functions that join, reduce, compose, replace and extract.
ComposingCalls ==
    {"joinForkOrChoose", "joinNestedEffects", "collapseResults",
     "composePossiblyNormalCompletions",
     "replacePossiblyNormalCompletionWithForkedAbruptCompletion",
     "extractAndJoinCompletionsOfType"}

\* C14: when every Effects record satisfies result.effects === this before
\* a call of one of the composing functions, every record does after it,
\* those the call created, returned or installed in a fork included; and
\* joinForkOrChoose under a condition that is not static, given a record
\* that does not satisfy it, fails an assertion and leaves the heap as it
\* was, no result made.
C14_BackLinkPreserved ==
    /\ (call.op \in ComposingCalls /\ BackLinked(call.pre)) => BackLinked(Heap)
    /\ ( /\ call.op = "joinForkOrChoose"
         /\ mightNotBeTrue(call.cond) /\ mightNotBeFalse(call.cond)
         /\ \E e \in {call.a1, call.a2} :
                call.pre.comps[call.pre.effs[e].result].effects # e )
       => /\ call.err = "invariant"
          /\ call.r = 0
          /\ Heap = call.pre

\* A fork with two open nested forks was turned into a fork of abrupt
\* completions, every record linked before the call.
C14_Witness ==
    /\ call.op = "replacePossiblyNormalCompletionWithForkedAbruptCompletion"
    /\ call.err = ""
    /\ BackLinked(call.pre)
    /\ call.pre.comps[call.pre.comps[call.a1].consequent].kind = "PNC"
    /\ call.pre.comps[call.pre.comps[call.a1].alternate].kind = "PNC"

(***************************************************************************)
(* Properties of the map joins: what they leave alone                      *)
(***************************************************************************)
RECURSIVE DescriptorObjects(_)
\* The descriptor objects reached from d: d itself, or the descriptors a
\* conditional descriptor holds.
DescriptorObjects(d) ==
    IF d = Void \/ d = InvariantViolation THEN {}
    ELSE IF d[1] = "joined"
    THEN DescriptorObjects(d[3]) \cup DescriptorObjects(d[4])
    ELSE {d}

\* The descriptor objects that exist before a join: those of the two maps
\* and those the PropertyBinding objects hold.
InputDescriptors ==
    UNION {DescriptorObjects(Properties1[i][2]) : i \in 1..Len(Properties1)}
    \cup UNION {DescriptorObjects(Properties2[i][2]) : i \in 1..Len(Properties2)}
    \cup UNION {DescriptorObjects(propBindingObjs[p][2]) : p \in PropertyNames}

\* After joinBindings each returned generator is the side's own, or, for a
\* side with a one-sided leak, one new wrapping generator that starts with
\* the entries of the side's own and adds only the assignments; no other
\* generator is made.
GeneratorsWrapped ==
    (call.op = "joinBindings" /\ call.err = "") =>
        LET keys == MapKeys(call.r[3])
            g1 == effs[call.a1].generator
            g2 == effs[call.a2].generator
        IN  /\ ReturnedGenerator(call.r[1], g1, keys, Bindings1, Bindings2)
            /\ ReturnedGenerator(call.r[2], g2, keys, Bindings2, Bindings1)
            /\ call.r[1] # call.r[2]
            /\ Len(gens) = Len(call.pre.gens)
                              + Cardinality({call.r[1], call.r[2]} \ {g1, g2})

\* After joinPropertyBindings every descriptor object of the joined map
\* that existed before the call is as it was; the others are new objects.
DescriptorsKept ==
    (call.op = "joinPropertyBindings" /\ call.err = "") =>
        \A i \in 1..Len(call.r) :
            \A d \in DescriptorObjects(call.r[i][2]) :
                d[2] # 0 => d \in InputDescriptors

\* C15: a call of joinBindings or of joinPropertyBindings (and of
\* joinDescriptors in it) leaves every Binding object, every PropertyBinding
\* object and its descriptor, the two Effects records with their maps, and
\* every generator that existed as they were; joinBindings adds
\* assignments only to a new wrapping generator, one per side at most,
\* that starts with the entries of the side's generator, and returns the
\* side's own generator when the side had no one-sided leak.
C15_InputsUnchanged ==
    [][ call'.op \in {"joinBindings", "joinPropertyBindings"} =>
            /\ bindingObjs' = bindingObjs
            /\ propBindingObjs' = propBindingObjs
            /\ effs' = effs
            /\ comps' = comps
            /\ \A g \in 1..Len(gens) : gens'[g] = gens[g]
            /\ GeneratorsWrapped'
            /\ DescriptorsKept' ]_vars

\* joinBindings was given a side with residual code and a binding that
\* leaked only on the other side: it returned a wrapping generator for it.
C15_Witness ==
    /\ call.op = "joinBindings"
    /\ call.err = ""
    /\ ~GeneratorEmpty(call.pre.gens, effs[call.a1].generator)
    /\ call.r[1] # effs[call.a1].generator
    /\ call.r[2] = effs[call.a2].generator

(***************************************************************************)
(* Properties of replacePossiblyNormalCompletionWithForkedAbruptCompletion *)
(***************************************************************************)
\* The record ne holds the effects of the record branch followed by those
\* of the record e, both as they were before the call: the residual code
\* of branch then that of e, the changes of branch overwritten by those of
\* e, the objects created in either.
ComposedAfter(ne, branch, e) ==
    LET E1 == call.pre.effs[branch]
        E2 == call.pre.effs[e]
    IN  /\ gens[effs[ne].generator].entries
              = call.pre.gens[E1.generator].entries
                   \o call.pre.gens[E2.generator].entries
        /\ effs[ne].modifiedBindings
              = MapSetAll(E1.modifiedBindings, E2.modifiedBindings)
        /\ effs[ne].modifiedProperties
              = MapSetAll(E1.modifiedProperties, E2.modifiedProperties)
        /\ effs[ne].createdObjects = E1.createdObjects \cup E2.createdObjects

RECURSIVE ReplacedBy(_, _, _, _)
\* The fork new stands for the open fork old once its open sides end with
\* the abrupt completion ac, whose record is e: it forks under the same
\* condition; a side that was abrupt is the same object, untouched; a
\* side that was a simple completion is a new completion of the class,
\* value and target of ac, whose record holds the side's effects followed
\* by those of e; a side that was an open fork is replaced in the same way.
ReplacedBy(old, new, ac, e) ==
    LET O == call.pre.comps[old]
        side(o, n) ==
            IF IsAbruptCompletion(call.pre.comps[o])
            THEN n = o /\ comps[o] = call.pre.comps[o]
            ELSE IF call.pre.comps[o].kind = "Simple"
            THEN /\ n > Len(call.pre.comps)
                 /\ comps[n].kind = call.pre.comps[ac].kind
                 /\ comps[n].value = call.pre.comps[ac].value
                 /\ comps[n].target = call.pre.comps[ac].target
                 /\ comps[n].effects # 0
                 /\ effs[comps[n].effects].result = n
                 /\ ComposedAfter(comps[n].effects, call.pre.comps[o].effects, e)
            ELSE ReplacedBy(o, n, ac, e)
    IN  /\ new > Len(call.pre.comps)
        /\ comps[new].kind = "Forked"
        /\ comps[new].joinCondition = O.joinCondition
        /\ side(O.consequent, comps[new].consequent)
        /\ side(O.alternate, comps[new].alternate)

\* C16: replacePossiblyNormalCompletionWithForkedAbruptCompletion(pnc, ac,
\* e) returns a fork of abrupt completions with the shape and the join
\* conditions of pnc, in which the abrupt completions of pnc are the same
\* objects at the same places and every simple completion of pnc has given
\* way to a completion of the class of ac whose effects are those of the
\* simple completion's branch followed by those of e.
C16_ForkOfAbruptCompletions ==
    ( /\ call.op = "replacePossiblyNormalCompletionWithForkedAbruptCompletion"
      /\ call.err = "" )
    => ReplacedBy(call.a1, call.r, call.a2, call.pe)

\* An open fork with an open fork on each side was replaced, and the
\* branches and the record e all had residual code or changes.
C16_Witness ==
    /\ call.op = "replacePossiblyNormalCompletionWithForkedAbruptCompletion"
    /\ call.err = ""
    /\ call.pre.comps[call.pre.comps[call.a1].consequent].kind = "PNC"
    /\ call.pre.comps[call.pre.comps[call.a1].alternate].kind = "PNC"
    /\ call.pre.effs[call.pe].modifiedBindings # <<>>

(***************************************************************************)
(* Properties of composePossiblyNormalCompletions                          *)
(***************************************************************************)
\* The completion n is c put after the simple completion o: a new object
\* with the fields of c, attached to a record that holds the effects of
\* the record of o (when the call was given no priorEffects).
ContinuedWith(o, n, c) ==
    /\ n > Len(call.pre.comps)
    /\ comps[n].effects # 0
    /\ comps[n] = [call.pre.comps[c] EXCEPT !.effects = comps[n].effects]
    /\ effs[comps[n].effects].result = n
    /\ call.pe = 0 =>
          effs[comps[n].effects]
             = [call.pre.effs[call.pre.comps[o].effects] EXCEPT !.result = n]

\* The fields that the fork new takes from the fork old and from c.
ComposedFields(old, new, c) ==
    /\ new > Len(call.pre.comps)
    /\ comps[new].kind = "PNC"
    /\ comps[new].value = call.pre.comps[c].value
    /\ comps[new].joinCondition = call.pre.comps[old].joinCondition
    /\ comps[new].savedPathConditions = call.pre.comps[old].savedPathConditions
    /\ comps[new].savedEffects = call.pre.comps[old].savedEffects

RECURSIVE ComposedWith(_, _, _)
\* The fork new is the fork old with c put after each of its open sides:
\* an abrupt side is the same object, a simple side is continued with c,
\* a side that is an open fork is composed in the same way.
ComposedWith(old, new, c) ==
    LET side(o, n) ==
            IF IsAbruptCompletion(call.pre.comps[o]) THEN n = o
            ELSE IF call.pre.comps[o].kind = "Simple" THEN ContinuedWith(o, n, c)
            ELSE ComposedWith(o, n, c)
    IN  /\ ComposedFields(old, new, c)
        /\ side(call.pre.comps[old].consequent, comps[new].consequent)
        /\ side(call.pre.comps[old].alternate, comps[new].alternate)

RECURSIVE ComposedOnOneSide(_, _, _)
\* The fork new is the fork old with c put after one side only: after the
\* alternate when the consequent is abrupt, after the consequent
\* otherwise, the other side being the same object whatever it is.
ComposedOnOneSide(old, new, c) ==
    LET O == call.pre.comps[old]
        side(o, n) ==
            IF call.pre.comps[o].kind = "Simple" THEN ContinuedWith(o, n, c)
            ELSE ComposedOnOneSide(o, n, c)
    IN  /\ ComposedFields(old, new, c)
        /\ IF IsAbruptCompletion(call.pre.comps[O.consequent])
           THEN /\ comps[new].consequent = O.consequent
                /\ side(O.alternate, comps[new].alternate)
           ELSE /\ comps[new].alternate = O.alternate
                /\ side(O.consequent, comps[new].consequent)

\* Every completion and every record that existed before the call is as
\* it was.
HeapKept ==
    /\ \A x \in 1..Len(call.pre.comps) : comps[x] = call.pre.comps[x]
    /\ \A e \in 1..Len(call.pre.effs) : effs[e] = call.pre.effs[e]

\* C17: composePossiblyNormalCompletions(pnc, c) fails an assertion when c
\* has saved effects; otherwise it returns a new PossiblyNormalCompletion
\* with the value of c and the join condition, saved path conditions and
\* saved effects of pnc, in which the abrupt side of pnc is the same
\* object and c is put after the open simple completion of every open
\* side, through nested forks; pnc and its abrupt side are not modified.
C17_OpenSideSpliced ==
    call.op = "composePossiblyNormalCompletions" =>
        /\ call.pre.comps[call.a2].savedEffects # 0
              => call.err = "invariant" /\ call.r = 0
        /\ call.pre.comps[call.a2].savedEffects = 0
              => /\ call.err = ""
                 /\ ComposedWith(call.a1, call.r, call.a2)
                 /\ HeapKept

\* What composePossiblyNormalCompletions does: as C17 but with c put after
\* one side of each fork only.
C17_OneSideSpliced ==
    call.op = "composePossiblyNormalCompletions" =>
        /\ call.pre.comps[call.a2].savedEffects # 0
              => call.err = "invariant" /\ call.r = 0
        /\ call.pre.comps[call.a2].savedEffects = 0
              => /\ call.err = ""
                 /\ ComposedOnOneSide(call.a1, call.r, call.a2)
                 /\ HeapKept

(***************************************************************************)
(* Properties of joinNestedEffects                                         *)
(***************************************************************************)
RECURSIVE LeafKinds(_)
\* The <<class, target>> of the completions at the leaves of c.
LeafKinds(c) ==
    IF call.pre.comps[c].kind \in {"PNC", "Forked"}
    THEN LeafKinds(call.pre.comps[c].consequent)
            \cup LeafKinds(call.pre.comps[c].alternate)
    ELSE {<<call.pre.comps[c].kind, call.pre.comps[c].target>>}

\* joinNestedEffects was given a fork.
ReducedFork ==
    /\ call.op = "joinNestedEffects"
    /\ comps[call.a1].kind \in {"PNC", "Forked"}

\* joinNestedEffects was given a completion that is not a fork.
ReducedLeaf ==
    /\ call.op = "joinNestedEffects"
    /\ comps[call.a1].kind \notin {"PNC", "Forked"}

\* C18: joinNestedEffects(c, preceding) for a c that is not a fork returns
\* preceding when it is given and otherwise, when it returns, a new
\* Effects record without effects whose result is c; for a fork whose
\* leaves all have one class (and one target) it returns a record, joined
\* under the fork's condition, whose result is a single completion of
\* that class and target, not a fork.
C18_ReducedToOneCompletion ==
    /\ (ReducedLeaf /\ call.pe # 0) =>
          call.err = "" /\ call.r = call.pe /\ Heap = call.pre
    /\ (ReducedLeaf /\ call.pe = 0 /\ call.err = "") =>
          /\ call.r > Len(call.pre.effs)
          /\ effs[call.r].result = call.a1
          /\ GeneratorEmpty(gens, effs[call.r].generator)
          /\ effs[call.r].modifiedBindings = <<>>
          /\ effs[call.r].modifiedProperties = <<>>
          /\ effs[call.r].createdObjects = {}
    /\ (ReducedFork /\ Cardinality(LeafKinds(call.a1)) = 1) =>
          /\ call.err = ""
          /\ call.r > Len(call.pre.effs)
          /\ <<comps[effs[call.r].result].kind,
               comps[effs[call.r].result].target>> \in LeafKinds(call.a1)
          /\ comps[effs[call.r].result].kind \notin {"PNC", "Forked"}
          /\ comps[effs[call.r].result].effects = call.r
          /\ \A i \in 1..Len(gens[effs[call.r].generator].entries) :
                LET en == gens[effs[call.r].generator].entries[i]
                IN  en[1] = "join" /\ en[2] = comps[call.a1].joinCondition

\* A fork of three thrown completions, one side a fork itself, was
\* reduced.
C18_Witness ==
    /\ ReducedFork
    /\ call.err = ""
    /\ LeafKinds(call.a1) = {<<"Throw", "">>}
    /\ \/ call.pre.comps[call.pre.comps[call.a1].consequent].kind = "Forked"
       \/ call.pre.comps[call.pre.comps[call.a1].alternate].kind = "Forked"

(***************************************************************************)
(* Properties of the entries joined by joinBindings                        *)
(***************************************************************************)
\* The keys of the map m, as a set.
KeySet(m) == {m[i][1] : i \in 1..Len(m)}

\* The join of the last values v1 and v2 of a binding that has not leaked:
\* the first when both are known, concrete and strictly equal, and the
\* conditional value of the two otherwise.
JoinedValue(cond, v1, v2) ==
    IF /\ v1 # Void
       /\ v2 # Void
       /\ ~IsAbstract(v1)
       /\ ~IsAbstract(v2)
       /\ StrictEqualityComparison(v1, v2)
    THEN v1
    ELSE createFromConditionalOp(cond, v1, v2)

\* C19: joinBindings joins every binding of either map; a side without an
\* entry counts with the Binding object's own hasLeaked and value; the
\* joined hasLeaked is the disjunction of the two sides' flags; the joined
\* value is undefined when the joined hasLeaked is true, and otherwise the
\* shared value when both sides' values are concrete and strictly equal
\* and the conditional value of the two under the join condition if not.
C19_EntriesJoined ==
    (call.op = "joinBindings" /\ call.err = "") =>
        /\ KeySet(call.r[3]) = KeySet(Bindings1) \cup KeySet(Bindings2)
        /\ \A i \in 1..Len(call.r[3]) :
              LET b == call.r[3][i][1]
                  e == call.r[3][i][2]
                  hasLeaked == LeakedIn(Bindings1, b) \/ LeakedIn(Bindings2, b)
              IN  /\ e[2] = hasLeaked
                  /\ e[3] = IF hasLeaked THEN Void
                            ELSE JoinedValue(call.cond,
                                             LastValueIn(Bindings1, b),
                                             LastValueIn(Bindings2, b))

\* The first branch gave b1 the value 8 and the second left it alone with
\* its own value 0; b2 got equal numbers in both branches.
C19_Witness ==
    /\ call.op = "joinBindings"
    /\ call.err = ""
    /\ MapHas(Bindings1, "b1")
    /\ ~MapHas(Bindings2, "b1")
    /\ MapGet(call.r[3], "b1")[2] = FALSE
    /\ MapGet(call.r[3], "b1")[3]
          = createFromConditionalOp(call.cond, Num(8, 1), Num(0, 1))
    /\ MapHas(Bindings1, "b2")
    /\ LastValueIn(Bindings1, "b2") = Num(9, 2)
    /\ LastValueIn(Bindings2, "b2") = Num(9, 1)
    /\ MapGet(call.r[3], "b2")[3] = Num(9, 2)

(***************************************************************************)
(* Properties of joinDescriptors                                           *)
(***************************************************************************)
\* dc is a new descriptor object with the attributes and accessors of d.
IsCloneOf(dc, d) ==
    /\ dc[1] = d[1]
    /\ dc[2] = 0
    /\ dc[4] = d[4]
    /\ dc[5] = d[5]

\* The conditional value of v and the empty value, v being on the first
\* side when first holds.
WithEmpty(cond, v, first) ==
    IF first THEN createFromConditionalOp(cond, v, Empty)
    ELSE createFromConditionalOp(cond, Empty, v)

\* The value a descriptor present on one side only is given: the
\* conditional value of v and empty, element by element when v is an
\* array of values or of map entries.
OneSidedValue(cond, v, first) ==
    IF ~IsArray(v) THEN WithEmpty(cond, v, first)
    ELSE Arr([i \in 1..Len(v[2]) |->
                 IF v[2][i][1] = "kv"
                 THEN KV(WithEmpty(cond, v[2][i][2], first),
                         WithEmpty(cond, v[2][i][3], first))
                 ELSE WithEmpty(cond, v[2][i], first)])

\* joinDescriptors returned for the descriptors d1 and d2.
JoinedDescriptors(d1, d2) ==
    /\ call.op = "joinDescriptors"
    /\ call.err = ""
    /\ call.a1 = d1
    /\ call.a2 = d2

\* C20: joinDescriptors(cond, d1, d2) returns, for two equal data
\* descriptors, a clone of d1 whose value is joinValues(d1.value, d2.value);
\* for any other two descriptors a conditional descriptor of cond, d1 and
\* d2; for one data descriptor a clone whose value is the conditional
\* value of its value and empty, its value on the first side when it is d1
\* and on the second when it is d2; and nothing for no descriptor.
C20_DescriptorsJoined ==
    \A d1 \in DescriptorOperands, d2 \in DescriptorOperands :
        JoinedDescriptors(d1, d2) =>
            IF d1 # Void /\ d2 # Void
            THEN IF equalDescriptors(d1, d2) /\ IsDataDescriptor(d1)
                 THEN /\ IsCloneOf(call.r, d1)
                      /\ call.r[3] = joinValues(d1[3], d2[3], PlainGav(call.cond))
                 ELSE call.r = JoinedDesc(call.cond, d1, d2)
            ELSE IF d1 # Void
            THEN IsDataDescriptor(d1) =>
                    /\ IsCloneOf(call.r, d1)
                    /\ call.r[3] = OneSidedValue(call.cond, d1[3], TRUE)
            ELSE IF d2 # Void
            THEN IsDataDescriptor(d2) =>
                    /\ IsCloneOf(call.r, d2)
                    /\ call.r[3] = OneSidedValue(call.cond, d2[3], FALSE)
            ELSE call.r = Void

\* A data descriptor holding the array [1, 2] was given as d2 alone.
C20_Witness ==
    /\ JoinedDescriptors(Void, DataDesc(7, Arr(<<Num(1, 1), Num(2, 1)>>), "wec"))
    /\ call.r[3] = Arr(<<createFromConditionalOp(call.cond, Empty, Num(1, 1)),
                         createFromConditionalOp(call.cond, Empty, Num(2, 1))>>)

(***************************************************************************)
(* Properties of the shape of open forks                                   *)
(***************************************************************************)
\* The PossiblyNormalCompletion objects of the heap.
OpenForks == {c \in 1..Len(comps) : comps[c].kind = "PNC"}

\* The side s of the fork c is open: a SimpleNormalCompletion or a nested
\* PossiblyNormalCompletion.
OpenSide(c, s) == s # 0 /\ comps[s].kind \in {"Simple", "PNC"}

\* The side s of the fork c is an abrupt completion.
AbruptSideOf(c, s) == s # 0 /\ IsAbruptCompletion(comps[s])

RECURSIVE ContainsAbrupt(_)
\* An abrupt completion lies somewhere in the tree of c.
ContainsAbrupt(c) ==
    IF c = 0 THEN FALSE
    ELSE IF comps[c].kind = "PNC"
    THEN ContainsAbrupt(comps[c].consequent) \/ ContainsAbrupt(comps[c].alternate)
    ELSE IsAbruptCompletion(comps[c])

\* C21 as stated: every PossiblyNormalCompletion has at least one abrupt
\* side, and its other side is a SimpleNormalCompletion or a nested
\* PossiblyNormalCompletion.
C21_OneAbruptSide ==
    \A c \in OpenForks :
        \/ AbruptSideOf(c, comps[c].consequent) /\ OpenSide(c, comps[c].alternate)
        \/ AbruptSideOf(c, comps[c].alternate) /\ OpenSide(c, comps[c].consequent)

\* C21, amended: every PossiblyNormalCompletion has at least one open
\* side, its other side is abrupt or open as well, and an abrupt
\* completion lies somewhere in its tree; the fork that joinForkOrChoose
\* returns for two normal results that are not both simple (through
\* joinNormalCompletions) has two open sides and no abrupt side.
C21_OneOpenSide ==
    /\ \A c \in OpenForks :
          /\ OpenSide(c, comps[c].consequent) \/ OpenSide(c, comps[c].alternate)
          /\ OpenSide(c, comps[c].consequent)
                \/ AbruptSideOf(c, comps[c].consequent)
          /\ OpenSide(c, comps[c].alternate)
                \/ AbruptSideOf(c, comps[c].alternate)
          /\ ContainsAbrupt(c)
    /\ (/\ call.op = "joinForkOrChoose"
        /\ call.err = ""
        /\ IsNormalCompletion(call.pre.comps[call.pre.effs[call.a1].result])
        /\ IsNormalCompletion(call.pre.comps[call.pre.effs[call.a2].result])
        /\ "PNC" \in {call.pre.comps[call.pre.effs[call.a1].result].kind,
                      call.pre.comps[call.pre.effs[call.a2].result].kind}) =>
          /\ effs[call.r].result > Len(call.pre.comps)
          /\ comps[effs[call.r].result].kind = "PNC"
          /\ comps[effs[call.r].result].consequent
                = call.pre.effs[call.a1].result
          /\ comps[effs[call.r].result].alternate
                = call.pre.effs[call.a2].result

\* A fork with two open sides, one of them a fork itself, was updated
\* with subsequent effects.
C21_Witness ==
    /\ call.op = "updatePossiblyNormalCompletionWithSubsequentEffects"
    /\ call.err = ""
    /\ OpenSide(call.a1, comps[call.a1].consequent)
    /\ OpenSide(call.a1, comps[call.a1].alternate)
    /\ "PNC" \in {comps[comps[call.a1].consequent].kind,
                  comps[comps[call.a1].alternate].kind}

(***************************************************************************)
(* Properties of the joins: the completions they are given                 *)
(***************************************************************************)
\* The completion c, which existed before the last call, has the value,
\* consequent and alternate it had.
FieldsKept(c) ==
    /\ comps[c].value = call.pre.comps[c].value
    /\ comps[c].consequent = call.pre.comps[c].consequent
    /\ comps[c].alternate = call.pre.comps[c].alternate

\* The update operations.
UpdateCalls ==
    {"updatePossiblyNormalCompletionWithSubsequentEffects",
     "updatePossiblyNormalCompletionWithValue"}

\* C22 as stated: a call of joinForkOrChoose (and of joinOrForkResults
\* within it) leaves the value, consequent and alternate of every
\* completion that existed as they were, the results r1 and r2 of the two
\* records among them; only the update operations write to a completion
\* that exists.
C22_InputsKept ==
    call.op \notin UpdateCalls =>
        \A c \in 1..Len(call.pre.comps) : FieldsKept(c)

\* What joinForkOrChoose does to the completions it is given: the one
\* completion written is the second result, when the condition is not
\* decided and both results are normal and not both simple, and what is
\* written is its value, which becomes the joined value of the two results.
C22_SecondNormalResultWritten ==
    call.op = "joinForkOrChoose" =>
        LET r1 == call.pre.effs[call.a1].result
            r2 == call.pre.effs[call.a2].result
            R1 == call.pre.comps[r1]
            R2 == call.pre.comps[r2]
            joined == /\ JoinedUndecided
                      /\ IsNormalCompletion(R1)
                      /\ IsNormalCompletion(R2)
                      /\ "PNC" \in {R1.kind, R2.kind}
        IN  \A c \in 1..Len(call.pre.comps) :
                IF c = r2 /\ joined /\ call.err = ""
                THEN /\ comps[c].value
                          = joinValues(R1.value, R2.value, EmptyAwareGav(call.cond))
                     /\ comps[c].consequent = R2.consequent
                     /\ comps[c].alternate = R2.alternate
                ELSE FieldsKept(c)

(***************************************************************************)
(* Properties of updatePossiblyNormalCompletionWithSubsequentEffects       *)
(***************************************************************************)
\* The last call was updatePossiblyNormalCompletionWithSubsequentEffects
\* (pnc, s) with pnc = call.a1 and s = call.pe.
UpdatedWithEffects ==
    call.op = "updatePossiblyNormalCompletionWithSubsequentEffects"

\* The result of s before the call.
SubsequentResult == call.pre.comps[call.pre.effs[call.pe].result]

RECURSIVE UpdatedTree(_)
\* The fork c, which existed before the call, is the same fork resumed
\* with s: its value is the value of the result of s; a side that was
\* abrupt is the same object, untouched; a side that was a simple
\* completion is a new simple completion with the value of the result of
\* s, whose record holds the side's effects followed by those of s; a side
\* that was an open fork is the same object, resumed in the same way.
UpdatedTree(c) ==
    LET O == call.pre.comps[c]
        side(o, n) ==
            IF IsAbruptCompletion(call.pre.comps[o])
            THEN n = o /\ comps[o] = call.pre.comps[o]
            ELSE IF call.pre.comps[o].kind = "Simple"
            THEN /\ n > Len(call.pre.comps)
                 /\ comps[n].kind = "Simple"
                 /\ comps[n].value = SubsequentResult.value
                 /\ comps[n].effects > Len(call.pre.effs)
                 /\ effs[comps[n].effects].result = n
                 /\ ComposedAfter(comps[n].effects, call.pre.comps[o].effects,
                                  call.pe)
            ELSE n = o /\ UpdatedTree(o)
    IN  /\ comps[c].kind = "PNC"
        /\ comps[c].value = SubsequentResult.value
        /\ comps[c].joinCondition = O.joinCondition
        /\ side(O.consequent, comps[c].consequent)
        /\ side(O.alternate, comps[c].alternate)

\* C23: updatePossiblyNormalCompletionWithSubsequentEffects(pnc, s) fails
\* an assertion, before it writes anything, unless the result of s is a
\* SimpleNormalCompletion; otherwise it returns, and then pnc and every
\* PossiblyNormalCompletion nested in it have the value of the result of
\* s, every SimpleNormalCompletion leaf has been replaced by the result of
\* composing the leaf's effects with s, the leaf's effects first, and
\* every abrupt leaf is the same object, unchanged, where it was.
C23_OpenLeavesResumed ==
    UpdatedWithEffects =>
        IF SubsequentResult.kind # "Simple"
        THEN call.err = "invariant" /\ Heap = call.pre
        ELSE /\ call.err = ""
             /\ UpdatedTree(call.a1)
             /\ comps[call.pre.effs[call.pe].result] = SubsequentResult

\* A fork with two open sides, one of them an open fork with an abrupt
\* side, was resumed.
C23_Witness ==
    /\ UpdatedWithEffects
    /\ call.err = ""
    /\ call.pre.comps[call.pre.comps[call.a1].consequent].kind = "PNC"
    /\ call.pre.comps[call.pre.comps[call.a1].alternate].kind = "Simple"
    /\ comps[call.a1].alternate > Len(call.pre.comps)
    /\ comps[comps[comps[call.a1].consequent].alternate].effects
          > Len(call.pre.effs)

(***************************************************************************)
(* Properties of the leaves of a replaced fork                             *)
(***************************************************************************)
RECURSIVE LeafSeq(_, _)
\* The completions at the leaves of the tree of c on the heap H, from the
\* consequent side to the alternate side.
LeafSeq(H, c) ==
    IF H.comps[c].kind \in {"PNC", "Forked"}
    THEN LeafSeq(H, H.comps[c].consequent) \o LeafSeq(H, H.comps[c].alternate)
    ELSE <<c>>

\* The last call was replacePossiblyNormalCompletionWithForkedAbruptCompletion
\* (pnc, ac, e) with pnc = call.a1, ac = call.a2, e = call.pe, and it
\* returned.
ReplacedFork ==
    /\ call.op = "replacePossiblyNormalCompletionWithForkedAbruptCompletion"
    /\ call.err = ""

RECURSIVE ReplacedSeq(_, _)
\* The pairs <<o, n>> of a leaf o of the open fork old, as it was before
\* the call, and the completion n found at the same place in the fork new.
\* The leaves of an open fork are its simple and its abrupt completions: an
\* abrupt side that is a fork of abrupt completions is one leaf.
ReplacedSeq(old, new) ==
    IF call.pre.comps[old].kind = "PNC"
    THEN ReplacedSeq(call.pre.comps[old].consequent, comps[new].consequent)
            \o ReplacedSeq(call.pre.comps[old].alternate, comps[new].alternate)
    ELSE << <<old, new>> >>

Extracted ==
    /\ call.op = "extractAndJoinCompletionsOfType"
    /\ call.err = ""

RECURSIVE FullyAbrupt(_, _)
\* c is a fork tree on the heap H whose leaves are all abrupt completions.
FullyAbrupt(H, c) ==
    IF H.comps[c].kind = "Forked"
    THEN /\ FullyAbrupt(H, H.comps[c].consequent)
         /\ FullyAbrupt(H, H.comps[c].alternate)
    ELSE IsAbruptCompletion(H.comps[c])

RECURSIVE NodesOf(_, _)
\* The completions of the tree of c on the heap H.
NodesOf(H, c) ==
    IF H.comps[c].kind \in {"PNC", "Forked"}
    THEN {c} \cup NodesOf(H, H.comps[c].consequent)
             \cup NodesOf(H, H.comps[c].alternate)
    ELSE {c}

RECURSIVE TimesIn(_, _, _)
\* How many times the entry x occurs in the generator g, the generators
\* its joined entries refer to included.
TimesIn(G, g, x) ==
    LET RECURSIVE count(_)
        count(s) ==
            IF s = <<>> THEN 0
            ELSE (IF Head(s) = x THEN 1 ELSE 0)
                 + (IF Head(s)[1] = "join"
                    THEN TimesIn(G, Head(s)[3], x) + TimesIn(G, Head(s)[4], x)
                    ELSE 0)
                 + count(Tail(s))
    IN  count(G[g].entries)

\* The entries the generators of c.consequentEffects and
\* c.alternateEffects held before the call.
SideEntries ==
    LET side(s) == call.pre.gens[call.pre.effs[
                       call.pre.comps[call.pre.comps[call.a1][s]].effects
                   ].generator].entries
    IN  {side("consequent")[i] : i \in DOMAIN side("consequent")}
        \cup {side("alternate")[i] : i \in DOMAIN side("alternate")}

\* The call was made on a fully abrupt fork tree.
ExtractedFromFork ==
    /\ Extracted
    /\ call.pre.comps[call.a1].kind = "Forked"
    /\ FullyAbrupt(call.pre, call.a1)

\* No completion of kind T remains in c.
NoneRemains ==
    \A n \in NodesOf(Heap, call.a1) : comps[n].kind # call.a2

\* The generators of c.consequentEffects and c.alternateEffects are empty.
SideGeneratorsEmpty ==
    \A s \in {"consequent", "alternate"} :
        GeneratorEmpty(gens, effs[comps[comps[call.a1][s]].effects].generator)

\* Each entry of the sides' generators is once in the returned generator.
EntriesMovedOnce ==
    \A x \in SideEntries : TimesIn(gens, effs[call.r].generator, x) = 1

\* The call was made on a fork an extraction of T has left: no completion
\* of kind T in it and the generators of both sides' records empty.
ExtractedAgain ==
    /\ Extracted
    /\ call.pre.comps[call.a1].kind = "Forked"
    /\ \A n \in NodesOf(call.pre, call.a1) : call.pre.comps[n].kind # call.a2
    /\ \A s \in {"consequent", "alternate"} :
           GeneratorEmpty(call.pre.gens,
                          call.pre.effs[call.pre.comps[
                              call.pre.comps[call.a1][s]].effects].generator)

\* The call joined no completion and no residual entry of a branch: its
\* result is a completion of kind T holding the empty value, c is as it
\* was, and no entry a branch emitted is in the returned generator.
JoinedNothing ==
    /\ comps[effs[call.r].result].kind = call.a2
    /\ comps[effs[call.r].result].value = Empty
    /\ \A n \in NodesOf(call.pre, call.a1) : comps[n] = call.pre.comps[n]
    /\ \A i \in 1..Len(gens) :
           TimesIn(gens, effs[call.r].generator, <<"op", i>>) = 0

\* C25: after extractAndJoinCompletionsOfType(T, realm, c) on a fully
\* abrupt fork tree c, no completion of kind T remains in c, the
\* generators of c.consequentEffects and c.alternateEffects are empty and
\* each entry they held is exactly once in the returned record's
\* generator; an extraction of T from the fork so left joins nothing.
C25_ExtractedOnce ==
    /\ ExtractedFromFork =>
           NoneRemains /\ SideGeneratorsEmpty /\ EntriesMovedOnce
    /\ ExtractedAgain => JoinedNothing

\* An extraction from a fork with a nested fork that held a completion of
\* kind T and became a PossiblyNormalCompletion, the sides' generators
\* holding a residual entry and a joined entry.
C25_Witness ==
    /\ ExtractedFromFork
    /\ \E s \in {"consequent", "alternate"} :
          /\ call.pre.comps[call.pre.comps[call.a1][s]].kind = "Forked"
          /\ comps[comps[call.a1][s]].kind = "PNC"
    /\ \E x \in SideEntries : x[1] = "join"
    /\ Cardinality(SideEntries) >= 2

(***************************************************************************)
(* Properties of composePossiblyNormalCompletions with priorEffects        *)
(***************************************************************************)
\* The last call was composePossiblyNormalCompletions(pnc, c, priorEffects)
\* with pnc = call.a1, c = call.a2 and priorEffects = call.pe supplied, and
\* it returned.
ComposedWithPrior ==
    /\ call.op = "composePossiblyNormalCompletions"
    /\ call.err = ""
    /\ call.pe # 0

RECURSIVE SplicedLeaf(_, _, _, _)
\* Where c was spliced: the open simple leaf o of the fork old, the
\* completion n that stands at its place in the fork new, how deep it
\* lies and whether a consequent side that is an open fork is on the way
\* to it.
SplicedLeaf(old, new, depth, through) ==
    LET abrupt == IsAbruptCompletion(call.pre.comps[call.pre.comps[old].consequent])
        side == IF abrupt THEN "alternate" ELSE "consequent"
        o == call.pre.comps[old][side]
        n == comps[new][side]
    IN  IF call.pre.comps[o].kind = "Simple"
        THEN [o |-> o, n |-> n, depth |-> depth, through |-> through,
              side |-> side]
        ELSE SplicedLeaf(o, n, depth + 1, through \/ ~abrupt)

\* The leaf c was spliced at in the last call.
Spliced == SplicedLeaf(call.a1, call.r, 1, FALSE)

\* The completion n has the fields of c and is the result of its record.
SplicedCompletion(n) ==
    /\ n > Len(call.pre.comps)
    /\ comps[n].effects # 0
    /\ comps[n] = [call.pre.comps[call.a2] EXCEPT !.effects = comps[n].effects]
    /\ effs[comps[n].effects].result = n

\* The record of n holds priorEffects followed by the effects of the
\* record of the leaf o.
PriorEffectsComposed(o, n) ==
    ComposedAfter(comps[n].effects, call.pe, call.pre.comps[o].effects)

\* The record of n holds the effects of the record of the leaf o only.
PriorEffectsDropped(o, n) ==
    effs[comps[n].effects]
       = [call.pre.effs[call.pre.comps[o].effects] EXCEPT !.result = n]

\* C26: composePossiblyNormalCompletions(pnc, c, priorEffects) with
\* priorEffects supplied installs, at the open leaf where c is spliced,
\* priorEffects composed with that leaf's new effects, at any nesting
\* depth and through consequent sides as through alternate sides.
C26_PriorEffectsAtEveryLeaf ==
    ComposedWithPrior =>
        /\ SplicedCompletion(Spliced.n)
        /\ PriorEffectsComposed(Spliced.o, Spliced.n)

\* What the code does: priorEffects are composed at the leaf unless a
\* consequent side that is an open fork lies on the way to it; then the
\* leaf's record holds the leaf's effects alone.
C26_PriorEffectsUnlessThroughConsequent ==
    ComposedWithPrior =>
        /\ SplicedCompletion(Spliced.n)
        /\ ~Spliced.through => PriorEffectsComposed(Spliced.o, Spliced.n)
        /\ Spliced.through => PriorEffectsDropped(Spliced.o, Spliced.n)

====
